---- MODULE Spec2Model ----
(***************************************************************************)
(* Model of the vdb versioned table engine (vdb_table) over its SQLite     *)
(* substrate: the data table with AUTOINCREMENT rowids and the partial     *)
(* unique index on (key, is_latest), the per-index data and config         *)
(* sub-tables, and the Table operations insert, insert_batch, delete,      *)
(* delete_with_version, update and create_table (with index catch-up).     *)
(***************************************************************************)
EXTENDS Integers, Sequences, FiniteSets, TLC

\* ------------------------------------------------------------------ bounds
\* Cap on the AUTOINCREMENT counter: no row is appended beyond this rowid.
MaxRows == 3
\* Longest key_values vector handed to insert_batch.
MaxBatch == 2
\* Components of a key.
MaxComponents == 3
\* Octets of a byte string handed to a decoder.
MaxInput == 4

\* ------------------------------------------------------------------ inputs
\* Primary keys and value blobs the callers use.
Keys == {"k1", "k2"}
Values == {"x", "y"}
\* Names of the indexes whose sub-tables the database may hold.
IndexNames == {"a", "b", "e", "r", "d"}
\* The connections (each with its own Table instance) of SpecConc.
Conns == {"c1", "c2"}

\* Option<T>: None is the empty sequence, Some(x) the one-element sequence.
None == << >>
Some(x) == << x >>
IsSome(o) == o # << >>
Unwrap(o) == o[1]

Range(s) == { s[i] : i \in DOMAIN s }

\* ------------------------------------------------------------------ state
VARIABLES
    created,   \* the {table}_$_data / {table}_$_conf tables and the unique index exist
    rows,      \* {table}_$_data, in rowid order
    seq,       \* sqlite_sequence entry of the data table (AUTOINCREMENT)
    tables,    \* index sub-tables that exist in the database
    idx,       \* contents of {table}_idx_{name}_data: set of <<ik, pk>>
    wm,        \* contents of {table}_idx_{name}_config row key = 1 (the watermark)
    conf2,     \* {table}_$_conf row key = 2: the tracked sub-tables
    indexes,   \* Table::indexes of the current Table instance (names, in append order)
    last,      \* the last call made on the Table: arguments, result, events delivered
    abs,       \* abstract map run side by side: key -> Option<(value, version)>
    pending    \* per connection: the update call that has read prev and not yet written

vars == << created, rows, seq, tables, idx, wm, conf2, indexes, last, abs, pending >>

\* Names of the two sub-tables Index::new derives for an index.
DataTable(i) == << i, "data" >>
ConfigTable(i) == << i, "config" >>

\* The user-supplied extractor closure of each index: Ok(Vec<ik>) or Err.
\* "a" derives its index keys from the value (as tests.rs test_index does):
\* every value yields the key "x", the value "y" also the key "y".
\* "b" derives one index key from the primary key (as test_table_typed does).
\* "e" decodes the value first (TestModel::from_slice(val)?): the value "y"
\* does not decode and the extractor returns the error; "x" yields the key "x".
\* "r" and "d" yield the keys of "a": "r" in the reverse order, "d" with a key
\* listed twice (an extractor pushing a key per occurrence in the value).
Extractor(i, pk, value) ==
    IF i = "a"
    THEN [ok |-> TRUE, keys |-> IF value = "y" THEN << "x", "y" >> ELSE << "x" >>]
    ELSE IF i = "r"
    THEN [ok |-> TRUE, keys |-> IF value = "y" THEN << "y", "x" >> ELSE << "x" >>]
    ELSE IF i = "d"
    THEN [ok |-> TRUE, keys |-> IF value = "y" THEN << "y", "x", "y" >> ELSE << "x", "x" >>]
    ELSE IF i = "e"
    THEN [ok |-> value # "y", keys |-> IF value = "y" THEN << >> ELSE << value >>]
    ELSE [ok |-> TRUE, keys |-> << pk >>]

\* --------------------------------------------------------- data table reads
\* rusqlite's conversion of a column to Option<Vec<u8>>: NULL is None, a BLOB
\* is Some(bytes), any other storage class is an InvalidColumnType error.
ColumnAsOptBlob(r) ==
    IF r.vty = "null" THEN [ok |-> TRUE, value |-> None]
    ELSE IF r.vty = "blob" THEN [ok |-> TRUE, value |-> Some(r.value)]
    ELSE [ok |-> FALSE, value |-> None]

\* select value, rowid ... where key = :key and is_latest = 1 and is_deleted <> 1
GetRows(rs, key) ==
    { r \in Range(rs) : r.key = key /\ r.is_latest /\ ~r.is_deleted }

\* Variant: get without the is_deleted filter.
GetAnyLatest(rs, key) ==
    LET m == { r \in Range(rs) : r.key = key /\ r.is_latest }
    IN IF m = {} THEN None
       ELSE LET r == CHOOSE r \in m : \A q \in m : r.rowid <= q.rowid
            IN Some([value |-> r.value, version |-> r.rowid])

Get(rs, key) ==
    IF GetRows(rs, key) = {} THEN None
    ELSE LET r == CHOOSE r \in GetRows(rs, key) :
                      \A q \in GetRows(rs, key) : r.rowid <= q.rowid
         IN Some([value |-> r.value, version |-> r.rowid])

\* select value ... where key = :key and rowid = :version and is_deleted <> 1
GetByVersion(rs, key, version) ==
    LET m == { r \in Range(rs) : r.key = key /\ r.rowid = version /\ ~r.is_deleted }
    IN IF m = {} THEN None ELSE Some((CHOOSE r \in m : TRUE).value)

\* -------------------------------------------------------- data table writes
\* Variant: the superseded row is also marked deleted.
UpdateLastToNotLatestMarkDeleted(rs, key) ==
    [ modified |-> \E j \in DOMAIN rs : rs[j].key = key /\ rs[j].is_latest,
      rows |-> [ j \in DOMAIN rs |->
                   IF rs[j].key = key /\ rs[j].is_latest
                   THEN [ rs[j] EXCEPT !.is_latest = FALSE, !.is_deleted = TRUE ]
                   ELSE rs[j] ] ]

\* Variant: the flag is cleared on live rows only (is_deleted <> 1).
UpdateLastToNotLatestLive(rs, key) ==
    [ modified |-> \E j \in DOMAIN rs :
                      rs[j].key = key /\ rs[j].is_latest /\ ~rs[j].is_deleted,
      rows |-> [ j \in DOMAIN rs |->
                   IF rs[j].key = key /\ rs[j].is_latest /\ ~rs[j].is_deleted
                   THEN [ rs[j] EXCEPT !.is_latest = FALSE ] ELSE rs[j] ] ]

\* update ... set is_latest = 0 where key = :key and is_latest = 1

UpdateLastToNotLatest(rs, key) ==
    [ modified |-> \E j \in DOMAIN rs : rs[j].key = key /\ rs[j].is_latest,
      rows |-> [ j \in DOMAIN rs |->
                   IF rs[j].key = key /\ rs[j].is_latest
                   THEN [ rs[j] EXCEPT !.is_latest = FALSE ] ELSE rs[j] ] ]

\* Variant: the version-checked update without its rowid = :version condition.
UpdateLastToNotLatestAnyVersion(rs, key, version) ==
    [ modified |-> \E j \in DOMAIN rs : rs[j].key = key /\ rs[j].is_latest,
      rows |-> [ j \in DOMAIN rs |->
                   IF rs[j].key = key /\ rs[j].is_latest
                   THEN [ rs[j] EXCEPT !.is_latest = FALSE ] ELSE rs[j] ] ]

\* update ... set is_latest = 0 where rowid = :version and key = :key and is_latest = 1
UpdateLastToNotLatestWithVersion(rs, key, version) ==
    [ modified |-> \E j \in DOMAIN rs :
                      rs[j].rowid = version /\ rs[j].key = key /\ rs[j].is_latest,
      rows |-> [ j \in DOMAIN rs |->
                   IF rs[j].rowid = version /\ rs[j].key = key /\ rs[j].is_latest
                   THEN [ rs[j] EXCEPT !.is_latest = FALSE ] ELSE rs[j] ] ]

\* Variant: the data table without its partial unique index.
UniqueOkNoIndex(rs, key) == TRUE

\* The partial unique index on (key, is_latest) WHERE is_latest = 1: a new row
\* with is_latest = 1 is accepted only if the key has no such row yet.

UniqueOk(rs, key) == ~ \E j \in DOMAIN rs : rs[j].key = key /\ rs[j].is_latest

\* Variant: a rowid allocator that hands out the largest rowid again.
NextRowidStale(sq) == IF sq = 0 THEN 1 ELSE sq

\* rowid INTEGER PRIMARY KEY AUTOINCREMENT: one more than the largest rowid
\* the table has ever held.

NextRowid(sq) == sq + 1

\* INSERT INTO data (key, is_latest, is_deleted, value) VALUES (:key, 1, d, v):
\* fails on the unique index, else appends the row and advances the sequence.
InsertRow(rs, sq, key, is_deleted, vty, value) ==
    IF ~UniqueOk(rs, key)
    THEN [ ok |-> FALSE, rows |-> rs, seq |-> sq, rowid |-> 0 ]
    ELSE [ ok |-> TRUE,
           rows |-> Append(rs, [ rowid |-> NextRowid(sq), key |-> key,
                                 is_deleted |-> is_deleted, is_latest |-> TRUE,
                                 vty |-> vty, value |-> value ]),
           seq |-> NextRowid(sq),
           rowid |-> NextRowid(sq) ]

\* ------------------------------------------------------------- index engine
\* SELECT ik FROM data WHERE pk = :pk
InnerGetPrevKeys(data, pk) == { p[1] : p \in { q \in data : q[2] = pk } }

\* DELETE FROM data WHERE ik = :ik, for every ik of the list
InnerDeleteIks(data, iks) == { p \in data : p[1] \notin iks }

\* INSERT INTO data (ik, pk) VALUES (:ik, :pk), one statement per list item;
\* the primary key (ik, pk) rejects a pair that is already stored.
RECURSIVE InnerInsertIks(_, _, _)
InnerInsertIks(data, iks, pk) ==
    IF iks = << >> THEN [ ok |-> TRUE, data |-> data ]
    ELSE IF << Head(iks), pk >> \in data THEN [ ok |-> FALSE, data |-> data ]
    ELSE InnerInsertIks(data \cup { << Head(iks), pk >> }, Tail(iks), pk)

\* Variant: the watermark is never written.
InnerSaveVersionKeep(w, version) == w

\* INSERT OR REPLACE INTO config (key, value) VALUES (1, :version)

InnerSaveVersion(w, version) == Some(version)

\* delete from data where pk = :pk
DeleteByPk(data, pk) == { p \in data : p[2] # pk }

\* A variant that keeps every element.
SelectNotInAll(s, set) == s

SelectNotIn(s, set) == SelectSeq(s, LAMBDA x : x \notin set)

\* Index::update on one index, given its data rows and watermark.
IndexUpdate(i, data, w, pk, value, version) ==
    LET prev_index_keys == InnerGetPrevKeys(data, pk)
        ext == Extractor(i, pk, value)
    IN IF ~ext.ok THEN [ ok |-> FALSE, data |-> data, wm |-> w ]
       ELSE LET new_index_keys == ext.keys
                keys_to_insert == SelectNotIn(new_index_keys, prev_index_keys)
                keys_to_delete == prev_index_keys \ Range(new_index_keys)
                ins == InnerInsertIks(InnerDeleteIks(data, keys_to_delete),
                                      keys_to_insert, pk)
            IN IF ~ins.ok THEN [ ok |-> FALSE, data |-> ins.data, wm |-> w ]
               ELSE [ ok |-> TRUE, data |-> ins.data,
                      wm |-> InnerSaveVersion(w, version) ]

\* Index::table_update with one update: u.kind is "Upsert" or "Delete".
\* A statement on a sub-table that does not exist fails to prepare.
TableUpdateOne(i, tbls, data, w, u) ==
    IF DataTable(i) \notin tbls \/ (u.kind = "Upsert" /\ ConfigTable(i) \notin tbls)
    THEN [ ok |-> FALSE, data |-> data, wm |-> w ]
    ELSE IF u.kind = "Upsert"
    THEN IndexUpdate(i, data, w, u.key, u.value, u.version)
    ELSE [ ok |-> TRUE, data |-> DeleteByPk(data, u.key), wm |-> w ]

\* --------------------------------------------------------------- index scan
\* The bytes of the keys the callers use ("" is b""): SQLite compares BLOBs
\* with memcmp, a proper prefix sorting first.
BytesOf(s) ==
    CASE s = "" -> << >>
      [] s = "x" -> << 120 >>
      [] s = "y" -> << 121 >>
      [] s = "k1" -> << 107, 49 >>
      [] s = "k2" -> << 107, 50 >>

RECURSIVE BytesLess(_, _)
BytesLess(a, b) ==
    IF b = << >> THEN FALSE
    ELSE IF a = << >> THEN TRUE
    ELSE IF Head(a) # Head(b) THEN Head(a) < Head(b)
    ELSE BytesLess(Tail(a), Tail(b))

\* The row-value comparisons (ik, pk) < (ik2, pk2) and (ik, pk) <= (ik2, pk2).
PairLess(p, q) ==
    \/ BytesLess(BytesOf(p[1]), BytesOf(q[1]))
    \/ p[1] = q[1] /\ BytesLess(BytesOf(p[2]), BytesOf(q[2]))
PairLessEq(p, q) == p = q \/ PairLess(p, q)

\* ORDER BY ik ASC, pk ASC / ORDER BY ik DESC, pk DESC
RECURSIVE OrderBy(_, _)
OrderBy(S, order) ==
    IF S = {} THEN << >>
    ELSE LET first == CHOOSE p \in S :
                         \A q \in S : IF order = "Asc" THEN PairLessEq(p, q)
                                      ELSE PairLessEq(q, p)
         IN << first >> \o OrderBy(S \ { first }, order)

\* A u32 as two 16-bit halves.
Half == 65536
U32(n) == [ hi |-> 0, lo |-> n ]
U32Max == [ hi |-> Half - 1, lo |-> Half - 1 ]
\* count + 1 in u32 arithmetic: the sum modulo 2^32 and whether it overflowed.
AddOneU32(c) ==
    IF c.lo + 1 < Half THEN [ overflow |-> FALSE, value |-> [ c EXCEPT !.lo = c.lo + 1 ] ]
    ELSE [ overflow |-> c.hi + 1 = Half,
           value |-> [ hi |-> (c.hi + 1) % Half, lo |-> 0 ] ]
\* n > c for a length n (lengths here are far below 2^16)
LenExceeds(n, c) == c.hi = 0 /\ n > c.lo
\* LIMIT c on a result of n rows: the number of rows returned
Limit(n, c) == IF LenExceeds(n, c) THEN c.lo ELSE n

\* ScanKey and ScanOptions
ScanKey(ik, pk, inclusive) == [ ik |-> ik, pk |-> pk, inclusive |-> inclusive ]
ScanOptions(lower_key, higher_key, count, order) ==
    [ lower_key |-> lower_key, higher_key |-> higher_key, count |-> count, order |-> order ]

\* ScanOptions::where_clause: the clauses pushed, joined with AND; the
\* inclusive flag of a ScanKey is not read.
WhereClause(options) ==
    (IF IsSome(options.lower_key) THEN << "lower" >> ELSE << >>)
    \o (IF IsSome(options.higher_key) THEN << "higher" >> ELSE << >>)

\* The rows the WHERE clause selects.
Selected(data, options) ==
    { p \in data :
        /\ IsSome(options.lower_key) =>
              PairLessEq(<< Unwrap(options.lower_key).ik, Unwrap(options.lower_key).pk >>, p)
        /\ IsSome(options.higher_key) =>
              PairLessEq(p, << Unwrap(options.higher_key).ik, Unwrap(options.higher_key).pk >>) }

ScanErr == [ ok |-> FALSE, panic |-> FALSE, keys |-> << >>, has_more |-> FALSE ]
ScanPanic == [ ok |-> FALSE, panic |-> TRUE, keys |-> << >>, has_more |-> FALSE ]

\* The rest of Index::scan once query_count is known.
ScanRun(data, options, query_count) ==
    LET all == OrderBy(Selected(data, options), options.order)
        keys == SubSeq(all, 1, Limit(Len(all), query_count))
        has_more == LenExceeds(Len(keys), options.count)
    IN [ ok |-> TRUE, panic |-> FALSE,
         keys |-> IF has_more THEN SubSeq(keys, 1, Len(keys) - 1) ELSE keys,
         has_more |-> has_more ]

\* Index::scan: the outcomes it can have. With an empty WHERE clause, or
\* without the data sub-table, the statement does not prepare. count + 1
\* overflows for count = u32::MAX: a build with overflow checks panics, one
\* without wraps to LIMIT 0.
IndexScan(i, tbls, data, options) ==
    IF DataTable(i) \notin tbls \/ WhereClause(options) = << >> THEN { ScanErr }
    ELSE IF AddOneU32(options.count).overflow
    THEN { ScanPanic, ScanRun(data, options, AddOneU32(options.count).value) }
    ELSE { ScanRun(data, options, AddOneU32(options.count).value) }

\* Table::get_by_index
GetByIndex(ixs, tbls, ix, index_name, key, count) ==
    IF index_name \notin Range(ixs)
    THEN { [ ok |-> FALSE, panic |-> FALSE, keys |-> << >>, has_more |-> FALSE,
             missing |-> TRUE ] }
    ELSE { [ ok |-> r.ok, panic |-> r.panic, keys |-> r.keys, has_more |-> r.has_more,
             missing |-> FALSE ] :
           r \in IndexScan(index_name, tbls, ix[index_name],
                           ScanOptions(Some(ScanKey(key, "", TRUE)), None, count, "Asc")) }

\* ------------------------------------------------------------ table engine
\* The state a transaction works on and rolls back as a whole.
Db == [ rows |-> rows, seq |-> seq, idx |-> idx, wm |-> wm ]

Upsert(key, value, version) ==
    [ kind |-> "Upsert", key |-> key, value |-> value, version |-> version ]
DeleteOf(key, version) ==
    [ kind |-> "Delete", key |-> key, value |-> "", version |-> version ]

\* for index in self.indexes.iter() { index.table_update(&trans, &updates)?; }
RECURSIVE UpdateIndexes(_, _, _, _, _)
UpdateIndexes(ixs, tbls, ix, w, u) ==
    IF ixs = << >> THEN [ ok |-> TRUE, idx |-> ix, wm |-> w ]
    ELSE LET i == Head(ixs)
             r == TableUpdateOne(i, tbls, ix[i], w[i], u)
         IN IF ~r.ok THEN [ ok |-> FALSE, idx |-> ix, wm |-> w ]
            ELSE UpdateIndexes(Tail(ixs), tbls,
                               [ ix EXCEPT ![i] = r.data ], [ w EXCEPT ![i] = r.wm ], u)

\* Table::inner_insert inside the caller's transaction.
InnerInsert(db, ixs, tbls, key, value) ==
    LET last_value_and_v == Get(db.rows, key)
        rows1 == IF IsSome(last_value_and_v)
                 THEN UpdateLastToNotLatest(db.rows, key).rows ELSE db.rows
        ins == InsertRow(rows1, db.seq, key, FALSE, "blob", value)
        v == ins.rowid
        upd == UpdateIndexes(ixs, tbls, db.idx, db.wm, Upsert(key, value, v))
    IN IF ~ins.ok \/ ~upd.ok
       THEN [ ok |-> FALSE, db |-> db, v |-> 0, event |-> [ key |-> "", from |-> None, to |-> None ] ]
       ELSE [ ok |-> TRUE,
              db |-> [ rows |-> ins.rows, seq |-> ins.seq, idx |-> upd.idx, wm |-> upd.wm ],
              v |-> v,
              event |-> [ key |-> key, from |-> last_value_and_v,
                          to |-> Some([ value |-> value, version |-> v ]) ] ]

\* The result of one call: ok (no Err), the committed state, the value
\* returned (-1 for none) and the item events handed to the observers
\* (none when observers are not notified).
Outcome(ok, db, ret, notified, events) ==
    [ ok |-> ok, db |-> db, ret |-> ret, notified |-> notified, events |-> events ]

\* Variant: insert without a transaction: every statement that ran before a
\* failure stays.
TableInsertNoTransaction(db, ixs, tbls, key, value) ==
    LET last_value_and_v == Get(db.rows, key)
        rows1 == IF IsSome(last_value_and_v)
                 THEN UpdateLastToNotLatest(db.rows, key).rows ELSE db.rows
        ins == InsertRow(rows1, db.seq, key, FALSE, "blob", value)
        upd == UpdateIndexes(ixs, tbls, db.idx, db.wm, Upsert(key, value, ins.rowid))
    IN IF ~ins.ok THEN Outcome(FALSE, [ db EXCEPT !.rows = rows1 ], -1, FALSE, << >>)
       ELSE IF ~upd.ok
       THEN Outcome(FALSE, [ rows |-> ins.rows, seq |-> ins.seq,
                             idx |-> upd.idx, wm |-> upd.wm ], -1, FALSE, << >>)
       ELSE Outcome(TRUE, [ rows |-> ins.rows, seq |-> ins.seq,
                            idx |-> upd.idx, wm |-> upd.wm ], ins.rowid, TRUE,
                    << [ key |-> key, from |-> last_value_and_v,
                         to |-> Some([ value |-> value, version |-> ins.rowid ]) ] >>)

\* Variant: insert without the observer loop.
TableInsertSilent(db, ixs, tbls, key, value) ==
    LET r == InnerInsert(db, ixs, tbls, key, value)
    IN IF r.ok THEN Outcome(TRUE, r.db, r.v, FALSE, << >>)
       ELSE Outcome(FALSE, db, -1, FALSE, << >>)

\* Table::insert: a dropped transaction rolls back.

TableInsert(db, ixs, tbls, key, value) ==
    LET r == InnerInsert(db, ixs, tbls, key, value)
    IN IF r.ok THEN Outcome(TRUE, r.db, r.v, TRUE, << r.event >>)
       ELSE Outcome(FALSE, db, -1, FALSE, << >>)

\* Table::insert_batch: the items in input order, in one transaction.
RECURSIVE BatchFold(_, _, _, _, _)
BatchFold(db, ixs, tbls, kvs, evs) ==
    IF kvs = << >> THEN [ ok |-> TRUE, db |-> db, events |-> evs ]
    ELSE LET r == InnerInsert(db, ixs, tbls, Head(kvs)[1], Head(kvs)[2])
         IN IF ~r.ok THEN [ ok |-> FALSE, db |-> db, events |-> evs ]
            ELSE BatchFold(r.db, ixs, tbls, Tail(kvs), Append(evs, r.event))

\* Variant: a failing batch keeps what its earlier items wrote.
TableInsertBatchNoRollback(db, ixs, tbls, kvs) ==
    IF kvs = << >> THEN Outcome(TRUE, db, -1, FALSE, << >>)
    ELSE LET r == BatchFold(db, ixs, tbls, kvs, << >>)
         IN IF r.ok THEN Outcome(TRUE, r.db, -1, TRUE, r.events)
            ELSE Outcome(FALSE, r.db, -1, FALSE, << >>)

TableInsertBatch(db, ixs, tbls, kvs) ==
    IF kvs = << >> THEN Outcome(TRUE, db, -1, FALSE, << >>)
    ELSE LET r == BatchFold(db, ixs, tbls, kvs, << >>)
         IN IF r.ok THEN Outcome(TRUE, r.db, -1, TRUE, r.events)
            ELSE Outcome(FALSE, db, -1, FALSE, << >>)

\* Variant: delete that clears the flag and appends no tombstone.
TableDeleteNoTombstone(db, key) ==
    LET u == UpdateLastToNotLatest(db.rows, key)
    IN IF ~u.modified THEN Outcome(TRUE, db, 0, FALSE, << >>)
       ELSE Outcome(TRUE, [ db EXCEPT !.rows = u.rows ], db.seq, FALSE, << >>)

\* Table::delete: appends a tombstone whose value is the text ''. It neither
\* touches the indexes nor notifies the observers.
TableDelete(db, key) ==
    LET u == UpdateLastToNotLatest(db.rows, key)
        ins == InsertRow(u.rows, db.seq, key, TRUE, "text", "")
    IN IF ~u.modified THEN Outcome(TRUE, db, 0, FALSE, << >>)
       ELSE IF ~ins.ok THEN Outcome(FALSE, db, -1, FALSE, << >>)
       ELSE Outcome(TRUE, [ db EXCEPT !.rows = ins.rows, !.seq = ins.seq ],
                    ins.rowid, FALSE, << >>)

\* Variant: delete_with_version that calls the observers on a rejection too.
TableDeleteWithVersionNotifyRejected(db, key, version) ==
    LET last_value == GetByVersion(db.rows, key, version)
        u == UpdateLastToNotLatestWithVersion(db.rows, key, version)
        ins == InsertRow(u.rows, db.seq, key, TRUE, "text", "")
        ev == << [ key |-> key,
                   from |-> IF IsSome(last_value)
                            THEN Some([ value |-> Unwrap(last_value), version |-> version ])
                            ELSE None,
                   to |-> None ] >>
    IN IF ~u.modified THEN Outcome(TRUE, db, 0, TRUE, ev)
       ELSE IF ~ins.ok THEN Outcome(FALSE, db, -1, FALSE, << >>)
       ELSE Outcome(TRUE, [ db EXCEPT !.rows = ins.rows, !.seq = ins.seq ],
                    ins.rowid, TRUE, ev)

\* Table::delete_with_version

TableDeleteWithVersion(db, key, version) ==
    LET last_value == GetByVersion(db.rows, key, version)
        u == UpdateLastToNotLatestWithVersion(db.rows, key, version)
        ins == InsertRow(u.rows, db.seq, key, TRUE, "text", "")
    IN IF ~u.modified THEN Outcome(TRUE, db, 0, FALSE, << >>)
       ELSE IF ~ins.ok THEN Outcome(FALSE, db, -1, FALSE, << >>)
       ELSE Outcome(TRUE, [ db EXCEPT !.rows = ins.rows, !.seq = ins.seq ],
                    ins.rowid, TRUE,
                    << [ key |-> key,
                         from |-> IF IsSome(last_value)
                                  THEN Some([ value |-> Unwrap(last_value),
                                              version |-> version ])
                                  ELSE None,
                         to |-> None ] >>)

\* Table::update after its get: prev is what get returned, f the result
\* update_f gives for it: "NotChange", "Delete", "Err", or a new value
\* (Update(new)). db is the database at the time of the write.
TableUpdateWrite(db, ixs, tbls, key, prev, f) ==
    LET prev_v == IF IsSome(prev) THEN Unwrap(prev).version ELSE 0
    IN IF f = "Err" THEN Outcome(FALSE, db, -1, FALSE, << >>)
       ELSE IF f = "NotChange" THEN Outcome(TRUE, db, -1, FALSE, << >>)
       ELSE IF f = "Delete" THEN TableDeleteWithVersion(db, key, prev_v)
       ELSE TableInsert(db, ixs, tbls, key, f)

\* Table::update on a connection that no other connection interleaves with.
TableUpdateF(db, ixs, tbls, key, f) ==
    TableUpdateWrite(db, ixs, tbls, key, Get(db.rows, key), f)

\* The update_f closures the callers pass: one that ignores its argument for
\* each answer ("NotChange", "Delete", "Err", or Update(v) named by v), and
\* "Step", which looks at the previous value (as test_index_create's closure
\* does): nothing stored gives Update("x"), "x" gives Update("y"), "y" Delete.
UpdateF(c, prev) ==
    IF c # "Step" THEN c
    ELSE IF prev = None THEN "x"
    ELSE IF Unwrap(prev).value = "x" THEN "y"
    ELSE "Delete"

\* Variant: update_f is called before anything is read, with None.
TableUpdateNoPrev(db, ixs, tbls, key, c) ==
    TableUpdateF(db, ixs, tbls, key, UpdateF(c, None))

\* Table::update: update_f is called once, with what get returns.

TableUpdate(db, ixs, tbls, key, c) ==
    TableUpdateF(db, ixs, tbls, key, UpdateF(c, Get(db.rows, key)))

\* ---------------------------------------------------- create_table pieces
\* Variant: the scan without its rowid > :from_version condition.
ScanRowsFromStart(rs, from_version) == SelectSeq(rs, LAMBDA r : r.is_latest)

\* SELECT key, value, rowid FROM data WHERE rowid > :from_version
\*   AND is_latest = 1 ORDER BY rowid

ScanRows(rs, from_version) ==
    SelectSeq(rs, LAMBDA r : r.rowid > from_version /\ r.is_latest)

\* The closure create_table hands to scan_to_end, applied row by row to one
\* index outside any transaction: what was written before a failure stays.
\* n counts the calls of the closure.
RECURSIVE CatchUpRows(_, _, _, _, _, _)
CatchUpRows(i, tbls, data, w, rs, n) ==
    IF rs = << >> THEN [ ok |-> TRUE, data |-> data, wm |-> w, n |-> n ]
    ELSE LET r == Head(rs)
             col == ColumnAsOptBlob(r)
             u == IF IsSome(col.value) THEN Upsert(r.key, Unwrap(col.value), r.rowid)
                  ELSE DeleteOf(r.key, r.rowid)
             t == TableUpdateOne(i, tbls, data, w, u)
         IN IF ~col.ok THEN [ ok |-> FALSE, data |-> data, wm |-> w, n |-> n ]
            ELSE IF ~t.ok THEN [ ok |-> FALSE, data |-> t.data, wm |-> t.wm, n |-> n + 1 ]
            ELSE CatchUpRows(i, tbls, t.data, t.wm, Tail(rs), n + 1)

\* The "refresh index" block: every attached index in turn (get_data_version,
\* then scan_to_end from it), stopping at the first error.
RECURSIVE CatchUp(_, _, _, _, _, _)
CatchUp(ixs, tbls, ix, w, rs, n) ==
    IF ixs = << >> THEN [ ok |-> TRUE, idx |-> ix, wm |-> w, n |-> n ]
    ELSE LET i == Head(ixs)
             synced == w[i]
             r == CatchUpRows(i, tbls, ix[i], synced,
                              ScanRows(rs, IF IsSome(synced) THEN Unwrap(synced) ELSE 0), 0)
             ix1 == [ ix EXCEPT ![i] = r.data ]
             w1 == [ w EXCEPT ![i] = r.wm ]
         IN IF ~r.ok THEN [ ok |-> FALSE, idx |-> ix1, wm |-> w1, n |-> n + r.n ]
            ELSE CatchUp(Tail(ixs), tbls, ix1, w1, rs, n + r.n)

\* Index::create_table for every attached index: the names it returns.
RECURSIVE TablesActive(_)
TablesActive(ixs) ==
    IF ixs = << >> THEN << >>
    ELSE << DataTable(Head(ixs)), ConfigTable(Head(ixs)) >> \o TablesActive(Tail(ixs))

\* load_associated_tables: the saved names; an absent row or an empty list
\* reads back as the single empty name "".split(",") yields.
LoadAssociatedTables(c) ==
    IF c = None \/ Unwrap(c) = << >> THEN << << "", "" >> >> ELSE Unwrap(c)

\* save_associated_tables
SaveAssociatedTables(active) == Some(active)

\* prev_tables.iter().filter(|t| !tables_active.contains(t))
TablesToDelete(prev, active) == Range(prev) \ Range(active)

\* Table::create_table after the primary DDL: create the sub-tables of the
\* attached indexes, catch up, then reconcile the tracked sub-tables. An
\* error in the catch-up returns before the reconciliation.
CreateTableResult(ixs, tbls, ix, w, c2, rs) ==
    LET active == TablesActive(ixs)
        tbls1 == tbls \cup Range(active)
        cu == CatchUp(ixs, tbls1, ix, w, rs, 0)
        drop == TablesToDelete(LoadAssociatedTables(c2), active)
    IN IF ~cu.ok
       THEN [ ok |-> FALSE, tables |-> tbls1, idx |-> cu.idx, wm |-> cu.wm,
              conf2 |-> c2, replayed |-> cu.n ]
       ELSE [ ok |-> TRUE,
              replayed |-> cu.n,
              tables |-> tbls1 \ drop,
              idx |-> [ i \in DOMAIN ix |->
                          IF DataTable(i) \in drop THEN {} ELSE cu.idx[i] ],
              wm |-> [ i \in DOMAIN w |->
                          IF ConfigTable(i) \in drop THEN None ELSE cu.wm[i] ],
              conf2 |-> SaveAssociatedTables(active) ]

\* ----------------------------------------------------------------- actions
\* What is recorded of a call: its arguments, whether it returned Ok, the
\* value returned (-1 for none), whether the observers were called and with
\* which item events, and how many rows a create_table catch-up replayed.
Call(op, key, value, version, items, o, replayed) ==
    [ op |-> op, key |-> key, value |-> value, version |-> version, items |-> items,
      ok |-> o.ok, ret |-> o.ret, notified |-> o.notified, events |-> o.events,
      replayed |-> replayed ]

\* Every statement fails while the data table does not exist.
NoTable == Outcome(FALSE, Db, -1, FALSE, << >>)

Commit(o) ==
    /\ rows' = o.db.rows
    /\ seq' = o.db.seq
    /\ idx' = o.db.idx
    /\ wm' = o.db.wm
    /\ UNCHANGED << created, tables, conf2, indexes >>

\* The abstract map after a batch: each item's key maps to what was inserted.
RECURSIVE AbsAfterEvents(_, _)
AbsAfterEvents(a, evs) ==
    IF evs = << >> THEN a
    ELSE AbsAfterEvents([ a EXCEPT ![Head(evs).key] = Head(evs).to ], Tail(evs))

Init ==
    /\ created = FALSE
    /\ rows = << >>
    /\ seq = 0
    /\ tables = {}
    /\ idx = [ i \in IndexNames |-> {} ]
    /\ wm = [ i \in IndexNames |-> None ]
    /\ conf2 = None
    /\ indexes = << >>
    /\ last = Call("new", "", "", 0, << >>, Outcome(TRUE, Db, -1, FALSE, << >>), 0)
    /\ abs = [ k \in Keys |-> None ]
    /\ pending = [ cn \in Conns |-> None ]

\* Table::new: a fresh Table instance on the same database.
NewTable ==
    /\ indexes' = << >>
    /\ last' = Call("new", "", "", 0, << >>, Outcome(TRUE, Db, -1, FALSE, << >>), 0)
    /\ UNCHANGED << created, rows, seq, tables, idx, wm, conf2, abs, pending >>

\* Table::append_index
AppendIndex(i) ==
    /\ i \notin Range(indexes)
    /\ indexes' = Append(indexes, i)
    /\ last' = Call("append_index", i, "", 0, << >>, Outcome(TRUE, Db, -1, FALSE, << >>), 0)
    /\ UNCHANGED << created, rows, seq, tables, idx, wm, conf2, abs, pending >>

\* Table::create_table
CreateTableApply(r) ==
    /\ created' = TRUE
    /\ tables' = r.tables
    /\ idx' = r.idx
    /\ wm' = r.wm
    /\ conf2' = r.conf2
    /\ last' = Call("create_table", "", "", 0, << >>,
                    Outcome(r.ok, Db, -1, r.ok, << >>), r.replayed)
    /\ UNCHANGED << rows, seq, indexes, abs, pending >>

CreateTable == CreateTableApply(CreateTableResult(indexes, tables, idx, wm, conf2, rows))

\* Table::insert
InsertApply(key, value, o) ==
    /\ Commit(o)
    /\ last' = Call("insert", key, value, 0, << >>, o, 0)
    /\ UNCHANGED pending
    /\ abs' = IF o.ok
              THEN [ abs EXCEPT ![key] = Some([ value |-> value, version |-> o.ret ]) ]
              ELSE abs

Insert(key, value) ==
    /\ seq < MaxRows
    /\ InsertApply(key, value,
                   IF created THEN TableInsert(Db, indexes, tables, key, value) ELSE NoTable)

\* Table::insert_batch
InsertBatchApply(kvs, o) ==
    /\ Commit(o)
    /\ last' = Call("insert_batch", "", "", 0, kvs, o, 0)
    /\ UNCHANGED pending
    /\ abs' = IF o.ok THEN AbsAfterEvents(abs, o.events) ELSE abs

InsertBatch(kvs) ==
    /\ seq + Len(kvs) <= MaxRows
    /\ InsertBatchApply(kvs,
                        IF created \/ kvs = << >>
                        THEN TableInsertBatch(Db, indexes, tables, kvs)
                        ELSE NoTable)

\* Table::delete
DeleteApply(key, o) ==
    /\ Commit(o)
    /\ last' = Call("delete", key, "", 0, << >>, o, 0)
    /\ UNCHANGED pending
    /\ abs' = IF o.ok /\ o.ret # 0 THEN [ abs EXCEPT ![key] = None ] ELSE abs

Delete(key) ==
    /\ seq < MaxRows
    /\ DeleteApply(key, IF created THEN TableDelete(Db, key) ELSE NoTable)

\* Table::delete_with_version
DeleteWithVersionApply(key, version, o) ==
    /\ Commit(o)
    /\ last' = Call("delete_with_version", key, "", version, << >>, o, 0)
    /\ UNCHANGED pending
    /\ abs' = IF o.ok /\ o.ret # 0 THEN [ abs EXCEPT ![key] = None ] ELSE abs

DeleteWithVersion(key, version) ==
    /\ seq < MaxRows
    /\ DeleteWithVersionApply(key, version,
                              IF created THEN TableDeleteWithVersion(Db, key, version)
                              ELSE NoTable)

\* Table::update, with the closure c passed as update_f and its answer f
UpdateApply(key, c, f, o) ==
    /\ Commit(o)
    /\ last' = Call("update", key, c, 0, << >>, o, 0)
    /\ UNCHANGED pending
    /\ abs' = IF ~o.ok \/ f = "NotChange" THEN abs
              ELSE IF f = "Delete"
              THEN (IF o.ret # 0 THEN [ abs EXCEPT ![key] = None ] ELSE abs)
              ELSE [ abs EXCEPT ![key] = Some([ value |-> f, version |-> o.ret ]) ]

Update(key, c) ==
    /\ seq < MaxRows
    /\ UpdateApply(key, c, UpdateF(c, Get(rows, key)),
                   IF created THEN TableUpdate(Db, indexes, tables, key, c) ELSE NoTable)

Batches == UNION { [ 1..n -> Keys \X Values ] : n \in 0..MaxBatch }

Next ==
    \/ NewTable
    \/ \E i \in { "a" } : AppendIndex(i)
    \/ CreateTable
    \/ \E k \in Keys, v \in Values : Insert(k, v)
    \/ \E kvs \in Batches : InsertBatch(kvs)
    \/ \E k \in Keys : Delete(k)
    \/ \E k \in Keys, ver \in 0..MaxRows : DeleteWithVersion(k, ver)
    \/ \E k \in Keys, c \in { "NotChange", "Delete", "Err", "Step" } \cup Values :
          Update(k, c)

Spec == Init /\ [][Next]_vars

\* ------------------------------------------------------ two connections
\* Two connections on the same database file, each calling Table::update.
\* update runs self.get on the bare connection, then update_f, and only then
\* opens a transaction (inside insert or delete_with_version): between the
\* read and the write another connection's call can commit.

\* Table::update up to and including its get; on a database without the
\* data table the get fails and update returns the error.
UpdateRead(cn, key, c) ==
    /\ seq < MaxRows
    /\ pending[cn] = None
    /\ IF created
       THEN /\ pending' = [ pending EXCEPT
                              ![cn] = Some([ key |-> key, c |-> c, prev |-> Get(rows, key) ]) ]
            /\ UNCHANGED last
       ELSE /\ last' = Call("update", key, c, 0, << >>, NoTable, 0)
            /\ UNCHANGED pending
    /\ UNCHANGED << created, rows, seq, tables, idx, wm, conf2, indexes, abs >>

\* The abstract map after an update whose closure answered f.
AbsAfterUpdate(a, key, f, o) ==
    IF ~o.ok \/ f = "NotChange" THEN a
    ELSE IF f = "Delete" THEN (IF o.ret # 0 THEN [ a EXCEPT ![key] = None ] ELSE a)
    ELSE [ a EXCEPT ![key] = Some([ value |-> f, version |-> o.ret ]) ]

\* The rest of Table::update: update_f on the value read earlier, then the
\* insert or delete_with_version in its own transaction.
UpdateWriteApply(cn, u, f, o) ==
    /\ Commit(o)
    /\ last' = Call("update", u.key, u.c, 0, << >>, o, 0)
    /\ abs' = AbsAfterUpdate(abs, u.key, f, o)
    /\ pending' = [ pending EXCEPT ![cn] = None ]

UpdateWriteOf(cn, u, f) ==
    UpdateWriteApply(cn, u, f, TableUpdateWrite(Db, indexes, tables, u.key, u.prev, f))

UpdateWrite(cn) ==
    /\ seq < MaxRows
    /\ pending[cn] # None
    /\ UpdateWriteOf(cn, Unwrap(pending[cn]),
                     UpdateF(Unwrap(pending[cn]).c, Unwrap(pending[cn]).prev))

NextConc ==
    \/ CreateTable
    \/ \E cn \in Conns, k \in Keys, c \in { "Step", "x", "NotChange", "Delete" } :
          UpdateRead(cn, k, c)
    \/ \E cn \in Conns : UpdateWrite(cn)

SpecConc == Init /\ [][NextConc]_vars

\* ------------------------------------------- an index whose extractor fails
\* A Table with the indexes "a" and "e" attached in either order.
NextIdx ==
    \/ \E i \in { "a", "e" } : AppendIndex(i)
    \/ CreateTable
    \/ \E k \in Keys, v \in Values : Insert(k, v)
    \/ \E kvs \in Batches : InsertBatch(kvs)

SpecIdx == Init /\ [][NextIdx]_vars

\* Tables whose index lists its keys in another order ("r") or twice ("d"),
\* with or without the index "a".
NextSet ==
    \/ \E i \in { "a", "r", "d" } : AppendIndex(i)
    \/ CreateTable
    \/ \E k \in Keys, v \in Values : Insert(k, v)

SpecSet == Init /\ [][NextSet]_vars

\* ------------------------------------------------- the index engine alone
\* Index::table_update called on the index "a" with one update, as the
\* catch-up closure calls it (in autocommit: what was written stays).
IndexTableUpdateApply(u, r) ==
    /\ idx' = [ idx EXCEPT !["a"] = r.data ]
    /\ wm' = [ wm EXCEPT !["a"] = r.wm ]
    /\ last' = [ op |-> "table_update", u |-> u, ok |-> r.ok ]
    /\ UNCHANGED << created, rows, seq, tables, conf2, indexes, abs, pending >>

IndexTableUpdate(u) ==
    /\ "a" \in Range(indexes)
    /\ IndexTableUpdateApply(u, TableUpdateOne("a", tables, idx["a"], wm["a"], u))

\* The catch-up of create_table for one index when the process stops in it:
\* n rows were applied, and of the next row's Index::update either nothing
\* ("no"), or the deletions ("deleted"), or the deletions and the insertions
\* ("keys") were written; its watermark was not.
CatchUpStopped(i, tbls, data, w, rs, n, partial) ==
    LET scanned == ScanRows(rs, IF IsSome(w) THEN Unwrap(w) ELSE 0)
        m == IF n < Len(scanned) THEN n ELSE Len(scanned)
        done == CatchUpRows(i, tbls, data, w, SubSeq(scanned, 1, m), 0)
        r == scanned[m + 1]
        next == CatchUpRows(i, tbls, done.data, done.wm, << r >>, 0)
        new_index_keys == Extractor(i, r.key, r.value).keys
        keys_to_delete == InnerGetPrevKeys(done.data, r.key) \ Range(new_index_keys)
    IN IF partial = "no" \/ ~done.ok \/ m = Len(scanned) \/ next.n = 0
       THEN [ data |-> done.data, wm |-> done.wm ]
       ELSE IF partial = "deleted"
       THEN [ data |-> InnerDeleteIks(done.data, keys_to_delete), wm |-> done.wm ]
       ELSE [ data |-> next.data, wm |-> done.wm ]

\* Table::create_table stopped during the catch-up of the index "a": the
\* tables exist, the tracking row is not written, nobody is notified.
CreateTableStoppedApply(n, partial, tbls, r) ==
    /\ created' = TRUE
    /\ tables' = tbls
    /\ idx' = [ idx EXCEPT !["a"] = r.data ]
    /\ wm' = [ wm EXCEPT !["a"] = r.wm ]
    /\ last' = [ op |-> "create_table_stopped", n |-> n, partial |-> partial ]
    /\ UNCHANGED << rows, seq, conf2, indexes, abs, pending >>

CreateTableStopped(n, partial) ==
    /\ indexes = << "a" >>
    /\ CreateTableStoppedApply(n, partial, tables \cup Range(TablesActive(indexes)),
           CatchUpStopped("a", tables \cup Range(TablesActive(indexes)),
                          idx["a"], wm["a"], rows, n, partial))

NextIndex ==
    \/ AppendIndex("a")
    \/ CreateTable
    \/ \E k \in Keys, v \in Values : Insert(k, v)
    \/ \E k \in Keys, v \in Values, version \in { 1, 2 } :
          IndexTableUpdate(Upsert(k, v, version))
    \/ \E k \in Keys, version \in { 1, 2 } : IndexTableUpdate(DeleteOf(k, version))
    \/ \E n \in { 0, 1 }, partial \in { "no", "deleted", "keys" } :
          CreateTableStopped(n, partial)

SpecIndex == Init /\ [][NextIndex]_vars

\* ------------------------------------------------------------ index reads
\* What is recorded of a read of an index: the index, the scan options, and
\* the outcome (Ok with the pairs and has_more, Err, or a panic).
ReadCall(op, index, options, r, missing) ==
    [ op |-> op, index |-> index, options |-> options,
      ok |-> r.ok, panic |-> r.panic, keys |-> r.keys, has_more |-> r.has_more,
      missing |-> missing ]

\* Table::get_by_index
GetByIndexCall(index_name, key, count) ==
    /\ \E r \in GetByIndex(indexes, tables, idx, index_name, key, count) :
          last' = ReadCall("get_by_index", index_name,
                           ScanOptions(Some(ScanKey(key, "", TRUE)), None, count, "Asc"),
                           r, r.missing)
    /\ UNCHANGED << created, rows, seq, tables, idx, wm, conf2, indexes, abs, pending >>

\* Index::scan on an attached index
ScanCall(i, options) ==
    /\ i \in Range(indexes)
    /\ \E r \in IndexScan(i, tables, idx[i], options) :
          last' = ReadCall("scan", i, options, r, FALSE)
    /\ UNCHANGED << created, rows, seq, tables, idx, wm, conf2, indexes, abs, pending >>

\* A Table with the indexes "a" and "b", filled by inserts and read with
\* get_by_index (by either name, attached or not yet).
NextGet ==
    \/ \E i \in { "a", "b" } : AppendIndex(i)
    \/ CreateTable
    \/ \E k \in Keys, v \in Values : Insert(k, v)
    \/ \E i \in { "a", "b" }, key \in { "x", "y", "k1", "k2" },
          c \in { U32(1), U32(2), U32Max } :
          GetByIndexCall(i, key, c)

SpecGet == Init /\ [][NextGet]_vars

\* Table::scan_to_end with a closure f that records its arguments and
\* returns Ok: the rows of the SELECT in rowid order, each column read before
\* f is called, the first failing read ending the scan with the error.
RECURSIVE ScanToEndRows(_, _)
ScanToEndRows(rs, calls) ==
    IF rs = << >> THEN [ ok |-> TRUE, calls |-> calls ]
    ELSE LET r == Head(rs)
             col == ColumnAsOptBlob(r)
         IN IF ~col.ok THEN [ ok |-> FALSE, calls |-> calls ]
            ELSE ScanToEndRows(Tail(rs), Append(calls, << r.key, col.value, r.rowid >>))

ScanToEnd(rs, from_version) == ScanToEndRows(ScanRows(rs, from_version), << >>)

ScanToEndApply(from_version, r) ==
    /\ last' = [ op |-> "scan_to_end", from_version |-> from_version,
                 ok |-> r.ok, calls |-> r.calls ]
    /\ UNCHANGED << created, rows, seq, tables, idx, wm, conf2, indexes, abs, pending >>

\* Table::scan_to_end; the prepare fails while the data table does not exist.
ScanToEndCall(from_version) ==
    ScanToEndApply(from_version,
                   IF created THEN ScanToEnd(rows, from_version)
                   ELSE [ ok |-> FALSE, calls |-> << >> ])

\* A Table without indexes, written by insert and delete, read by scan_to_end.
NextScanToEnd ==
    \/ CreateTable
    \/ \E k \in Keys, v \in Values : Insert(k, v)
    \/ \E k \in Keys : Delete(k)
    \/ \E v \in 0 .. MaxRows : ScanToEndCall(v)

SpecScanToEnd == Init /\ [][NextScanToEnd]_vars

\* A Table with the index "a", filled by inserts and read with Index::scan:
\* each bound absent, inclusive or exclusive, three counts, both orders.
NextScan ==
    \/ AppendIndex("a")
    \/ CreateTable
    \/ \E k \in Keys, v \in Values : Insert(k, v)
    \/ \E l \in { None, Some(ScanKey("x", "k1", TRUE)), Some(ScanKey("x", "k1", FALSE)) },
          h \in { None, Some(ScanKey("y", "k1", TRUE)), Some(ScanKey("y", "k1", FALSE)) },
          c \in { U32(1), U32(2), U32Max }, o \in { "Asc", "Desc" } :
          ScanCall("a", ScanOptions(l, h, c, o))

SpecScan == Init /\ [][NextScan]_vars

\* ---------------------------------------------------------------- vdb_key
\* A Component: ty is the Ty discriminant (I64 = 1, F64 = 2, Bytes = 3), v the
\* integer of an I64, b the payload of a Bytes (for an F64, its 8 bytes).
I64(v) == [ ty |-> 1, v |-> v, b |-> << >> ]
F64(bits) == [ ty |-> 2, v |-> 0, b |-> bits ]
Bytes(b) == [ ty |-> 3, v |-> 0, b |-> b ]

\* The four low-order bytes, big-endian, of u in 0 .. 2^31 - 1.
Be4(u) == << u \div 16777216, (u \div 65536) % 256, (u \div 256) % 256, u % 256 >>

\* i64::to_be_bytes, for the values of an i64 between -2^31 and 2^31 - 1:
\* two's complement on 8 bytes, the upper four bytes being the sign extension.
ToBeBytes(v) ==
    IF v >= 0 THEN << 0, 0, 0, 0 >> \o Be4(v)
    ELSE LET u == (v + 2147483647) + 1
         IN << 255, 255, 255, 255 >> \o [ Be4(u) EXCEPT ![1] = @ + 128 ]

\* i64::from_be_bytes; a value beyond 32 bits is kept as its 8 bytes.
FromBeBytes(buf) ==
    LET low == (buf[5] % 128) * 16777216 + buf[6] * 65536 + buf[7] * 256 + buf[8]
    IN IF SubSeq(buf, 1, 4) = << 0, 0, 0, 0 >> /\ buf[5] < 128 THEN low
       ELSE IF SubSeq(buf, 1, 4) = << 255, 255, 255, 255 >> /\ buf[5] >= 128
       THEN (low - 2147483647) - 1
       ELSE buf

BYTE_SEPARATOR == 0

\* Variant: escape_bytes that does not double a separator of the payload.
RECURSIVE EscapeBytesPlain(_)
EscapeBytesPlain(val) ==
    IF val = << >> THEN << BYTE_SEPARATOR >>
    ELSE << Head(val) >> \o EscapeBytesPlain(Tail(val))

\* escape_bytes: every separator of the payload doubled, one separator last.
RECURSIVE EscapeBytes(_)
EscapeBytes(val) ==
    IF val = << >> THEN << BYTE_SEPARATOR >>
    ELSE (IF Head(val) = BYTE_SEPARATOR THEN << BYTE_SEPARATOR >> ELSE << >>)
         \o << Head(val) >> \o EscapeBytes(Tail(val))

\* Key::append_component
AppendComponent(storage, c) ==
    IF c.ty = 1 THEN storage \o << 1 >> \o ToBeBytes(c.v)
    ELSE IF c.ty = 2 THEN storage \o << 2 >> \o c.b
    ELSE storage \o << 3 >> \o EscapeBytes(c.b)

\* Key::from(&[Component])
RECURSIVE KeyFromAcc(_, _)
KeyFromAcc(storage, components) ==
    IF components = << >> THEN storage
    ELSE KeyFromAcc(AppendComponent(storage, Head(components)), Tail(components))

KeyFrom(components) == KeyFromAcc(<< >>, components)

\* parse_bytes: the loop over val with its escaping flag; rest is what
\* follows the payload, panic the "didn't finish" case.
RECURSIVE ParseBytes(_, _, _)
ParseBytes(val, result, escaping) ==
    IF val = << >>
    THEN [ panic |-> ~escaping, rest |-> << >>, bytes |-> result ]
    ELSE IF Head(val) = BYTE_SEPARATOR
    THEN (IF escaping THEN ParseBytes(Tail(val), Append(result, BYTE_SEPARATOR), FALSE)
          ELSE ParseBytes(Tail(val), result, TRUE))
    ELSE IF escaping THEN [ panic |-> FALSE, rest |-> val, bytes |-> result ]
    ELSE ParseBytes(Tail(val), Append(result, Head(val)), escaping)

\* Key::as_components: the loop over the storage; an unknown type byte, fewer
\* than 8 bytes of a number and an unfinished payload panic.
RECURSIVE AsComponentsFrom(_, _)
AsComponentsFrom(current, components) ==
    IF current = << >> THEN [ panic |-> FALSE, components |-> components ]
    ELSE LET ty == Head(current)
             rest == Tail(current)
             p == ParseBytes(rest, << >>, FALSE)
         IN IF ty \notin { 1, 2, 3 } THEN [ panic |-> TRUE, components |-> components ]
            ELSE IF ty = 3
            THEN (IF p.panic THEN [ panic |-> TRUE, components |-> components ]
                  ELSE AsComponentsFrom(p.rest, Append(components, Bytes(p.bytes))))
            ELSE IF Len(rest) < 8 THEN [ panic |-> TRUE, components |-> components ]
            ELSE AsComponentsFrom(SubSeq(rest, 9, Len(rest)),
                     Append(components,
                            IF ty = 1 THEN I64(FromBeBytes(SubSeq(rest, 1, 8)))
                            ELSE F64(SubSeq(rest, 1, 8))))

AsComponents(storage) == AsComponentsFrom(storage, << >>)

\* Ordering as -1 (Less), 0 (Equal), 1 (Greater).
\* <Vec<u8> as Ord>::cmp, the derived order of Key
CmpBytes(a, b) == IF a = b THEN 0 ELSE IF BytesLess(a, b) THEN -1 ELSE 1

\* <Component as Ord>::cmp, for I64 and Bytes components
CmpComponent(l, r) ==
    IF l.ty = 1 /\ r.ty = 1 THEN (IF l.v < r.v THEN -1 ELSE IF l.v = r.v THEN 0 ELSE 1)
    ELSE IF l.ty = 3 /\ r.ty = 3 THEN CmpBytes(l.b, r.b)
    ELSE IF l.ty < r.ty THEN -1 ELSE IF l.ty = r.ty THEN 0 ELSE 1

\* <Vec<Component> as Ord>::cmp: left to right, a proper prefix first.
RECURSIVE CmpComponents(_, _)
CmpComponents(l, r) ==
    IF l = << >> THEN (IF r = << >> THEN 0 ELSE -1)
    ELSE IF r = << >> THEN 1
    ELSE IF CmpComponent(Head(l), Head(r)) # 0 THEN CmpComponent(Head(l), Head(r))
    ELSE CmpComponents(Tail(l), Tail(r))

\* The sequences of at most n elements of S.
SeqsUpTo(S, n) == UNION { [ 1 .. m -> S ] : m \in 0 .. n }

\* The state of the vdb_key specifications: what was called last, with its
\* arguments and result; the table state is not involved.
KeyIdle ==
    /\ created = FALSE /\ rows = << >> /\ seq = 0 /\ tables = {}
    /\ idx = [ i \in IndexNames |-> {} ] /\ wm = [ i \in IndexNames |-> None ]
    /\ conf2 = None /\ indexes = << >>
    /\ abs = [ k \in Keys |-> None ] /\ pending = [ cn \in Conns |-> None ]

KeyUnchanged ==
    UNCHANGED << created, rows, seq, tables, idx, wm, conf2, indexes, abs, pending >>

\* The components keys are built from: negative, zero and positive numbers,
\* one with a zero low byte; payloads that are empty, hold separators, end in
\* a separator, and hold the type bytes.
InitKey ==
    /\ KeyIdle
    /\ \E c \in SeqsUpTo({ I64(v) : v \in { -1, 0, 1, 256 } }
                         \cup { Bytes(b) : b \in { << >>, << 0 >>, << 1 >>, << 0, 0 >>,
                                                  << 3, 0 >>, << 0, 3 >>, << 97, 0, 98 >> } },
                         MaxComponents) :
          last = [ op |-> "components", c |-> c ]

\* key = Key::from(c); key.as_components()
KeyRoundTrip ==
    /\ last.op = "components"
    /\ last' = [ op |-> "as_components", c |-> last.c, key |-> KeyFrom(last.c),
                 out |-> AsComponents(KeyFrom(last.c)) ]
    /\ KeyUnchanged

SpecKey == InitKey /\ [][KeyRoundTrip]_vars

\* The components whose keys are compared: non-negative numbers and payloads
\* with and without separators.
InitKeyOrder ==
    /\ KeyIdle
    /\ \E l, r \in SeqsUpTo({ I64(v) : v \in { 0, 256 } }
                            \cup { Bytes(b) : b \in { << >>, << 0 >>, << 97 >>, << 97, 0 >> } },
                            MaxComponents) :
          last = [ op |-> "pair", l |-> l, r |-> r ]

\* l.cmp(&r) and Key::from(l).into_bytes().cmp(&Key::from(r).into_bytes())
KeyCompare ==
    /\ last.op = "pair"
    /\ last' = [ op |-> "cmp", l |-> last.l, r |-> last.r,
                 components |-> CmpComponents(last.l, last.r),
                 bytes |-> CmpBytes(KeyFrom(last.l), KeyFrom(last.r)) ]
    /\ KeyUnchanged

SpecKeyOrder == InitKeyOrder /\ [][KeyCompare]_vars

\* -------------------------------------------------------------- vdb_value
\* enum Ty, by its discriminant
TyAny == 0
TyI64 == 1
TyF64 == 2
TyBytes == 3
TyList == 4
TyStruct == 5
TyStop == 255

\* A DynamicValue: ty names the variant; v is the number of an I64, bytes the
\* payload of a Bytes (of an F64, its 8 bytes), item_ty and items belong to a
\* List, and fields is the BTreeMap of a Struct as its (index, value) entries
\* in ascending index order.
DynamicValue(ty, v, bytes, item_ty, items, fields) ==
    [ ty |-> ty, v |-> v, bytes |-> bytes, item_ty |-> item_ty, items |-> items,
      fields |-> fields ]
DynamicI64(v) == DynamicValue(TyI64, v, << >>, TyAny, << >>, << >>)
DynamicF64(bits) == DynamicValue(TyF64, 0, bits, TyAny, << >>, << >>)
DynamicBytes(bytes) == DynamicValue(TyBytes, 0, bytes, TyAny, << >>, << >>)
DynamicList(item_ty, items) == DynamicValue(TyList, 0, << >>, item_ty, items, << >>)
DynamicStruct(fields) == DynamicValue(TyStruct, 0, << >>, TyAny, << >>, fields)
DynamicStop == DynamicValue(TyStop, 0, << >>, TyAny, << >>, << >>)

\* OutProtocol
WriteU32(val) == Be4(val)
WriteI64(val) == ToBeBytes(val)
WriteF64(bits) == bits
WriteBytes(bytes) == WriteU32(Len(bytes)) \o bytes
WriteFieldHeader(ty, index) == << ty, index >>
WriteListHeader(item_ty, item_size) == << item_ty >> \o WriteU32(item_size)
WriteStop == WriteFieldHeader(TyStop, 255)

\* DynamicValue::to_output and DynamicStruct::to_output, as the bytes written.
RECURSIVE ToOutput(_)
RECURSIVE ItemsToOutput(_)
RECURSIVE StructToOutput(_)
ToOutput(value) ==
    IF value.ty = TyI64 THEN WriteI64(value.v)
    ELSE IF value.ty = TyF64 THEN WriteF64(value.bytes)
    ELSE IF value.ty = TyBytes THEN WriteBytes(value.bytes)
    ELSE IF value.ty = TyStruct THEN StructToOutput(value.fields)
    ELSE IF value.ty = TyList
    THEN WriteListHeader(value.item_ty, Len(value.items)) \o ItemsToOutput(value.items)
    ELSE << >>

ItemsToOutput(items) ==
    IF items = << >> THEN << >>
    ELSE ToOutput(Head(items)) \o ItemsToOutput(Tail(items))

StructToOutput(fields) ==
    IF fields = << >> THEN WriteStop
    ELSE WriteFieldHeader(Head(fields).value.ty, Head(fields).index)
         \o ToOutput(Head(fields).value) \o StructToOutput(Tail(fields))

\* Value::to_vec of a DynamicStruct
ToVec(st) == StructToOutput(st.fields)

\* InputProtocol: each read answers ok, what it read and the store left.
ReadNBytes(store, n) ==
    IF Len(store) < n THEN [ ok |-> FALSE, bytes |-> << >>, store |-> store ]
    ELSE [ ok |-> TRUE, bytes |-> SubSeq(store, 1, n),
           store |-> SubSeq(store, n + 1, Len(store)) ]

\* raw_read_u32: big marks a value of 2^31 or more, longer than any store.
RawReadU32(store) ==
    LET r == ReadNBytes(store, 4)
    IN IF ~r.ok THEN [ ok |-> FALSE, big |-> FALSE, n |-> 0, store |-> store ]
       ELSE [ ok |-> TRUE, big |-> r.bytes[1] >= 128,
              n |-> (r.bytes[1] % 128) * 16777216 + r.bytes[2] * 65536
                    + r.bytes[3] * 256 + r.bytes[4],
              store |-> r.store ]

ReadBytes(store) ==
    LET size == RawReadU32(store)
    IN IF ~size.ok \/ size.big THEN [ ok |-> FALSE, bytes |-> << >>, store |-> store ]
       ELSE ReadNBytes(size.store, size.n)

TryU8ToTy(val) ==
    [ ok |-> val \in { TyAny, TyI64, TyF64, TyBytes, TyList, TyStruct, TyStop },
      ty |-> val ]

ReadFieldHeader(store) ==
    LET r == ReadNBytes(store, 2)
    IN IF ~r.ok \/ ~TryU8ToTy(r.bytes[1]).ok
       THEN [ ok |-> FALSE, ty |-> TyAny, index |-> 0, store |-> store ]
       ELSE [ ok |-> TRUE, ty |-> r.bytes[1], index |-> r.bytes[2], store |-> r.store ]

ReadListHeader(store) ==
    LET r == ReadNBytes(store, 1)
        size == RawReadU32(r.store)
    IN IF ~r.ok \/ ~TryU8ToTy(r.bytes[1]).ok \/ ~size.ok \/ size.big
       THEN [ ok |-> FALSE, ty |-> TyAny, n |-> 0, store |-> store ]
       ELSE [ ok |-> TRUE, ty |-> r.bytes[1], n |-> size.n, store |-> size.store ]

\* BTreeMap::insert: the entry of the index replaced, or added in order.
RECURSIVE BTreeMapInsert(_, _, _)
BTreeMapInsert(fields, index, value) ==
    IF fields = << >> THEN << [ index |-> index, value |-> value ] >>
    ELSE IF Head(fields).index = index
    THEN << [ index |-> index, value |-> value ] >> \o Tail(fields)
    ELSE IF Head(fields).index > index
    THEN << [ index |-> index, value |-> value ] >> \o fields
    ELSE << Head(fields) >> \o BTreeMapInsert(Tail(fields), index, value)

\* Variant: the List arm of from_input without the assignment of item_ty,
\* the value keeping the Any of default_for_ty.
ListFromInputDefaultTy(item_ty_input, items_input) == DynamicList(TyAny, items_input)

\* The List arm of from_input: *items = items_input; *item_ty = item_ty_input
ListFromInput(item_ty_input, items_input) == DynamicList(item_ty_input, items_input)

\* What a from_input leaves: Ok with the value read, Err, or a panic.
Read(store, value) == [ ok |-> TRUE, panic |-> FALSE, store |-> store, value |-> value ]
Failed(store) == [ Read(store, DynamicStop) EXCEPT !.ok = FALSE ]

\* DynamicValue::default_for_ty(ty) followed by from_input, and
\* DynamicStruct::from_input; default_for_ty(Any) panics.
RECURSIVE FromInput(_, _)
RECURSIVE ItemsFromInput(_, _, _, _)
RECURSIVE StructFromInput(_, _)
FromInput(ty, store) ==
    IF ty = TyAny THEN [ Failed(store) EXCEPT !.panic = TRUE ]
    ELSE IF ty = TyI64
    THEN (IF ReadNBytes(store, 8).ok
          THEN Read(ReadNBytes(store, 8).store,
                    DynamicI64(FromBeBytes(ReadNBytes(store, 8).bytes)))
          ELSE Failed(store))
    ELSE IF ty = TyF64
    THEN (IF ReadNBytes(store, 8).ok
          THEN Read(ReadNBytes(store, 8).store, DynamicF64(ReadNBytes(store, 8).bytes))
          ELSE Failed(store))
    ELSE IF ty = TyBytes
    THEN (IF ReadBytes(store).ok
          THEN Read(ReadBytes(store).store, DynamicBytes(ReadBytes(store).bytes))
          ELSE Failed(store))
    ELSE IF ty = TyStruct THEN StructFromInput(store, << >>)
    ELSE IF ty = TyList
    THEN (IF ReadListHeader(store).ok
          THEN ItemsFromInput(ReadListHeader(store).ty, ReadListHeader(store).n,
                              ReadListHeader(store).store, << >>)
          ELSE Failed(store))
    ELSE Read(store, DynamicStop)

ItemsFromInput(item_ty_input, n, store, items_input) ==
    IF n = 0 THEN Read(store, ListFromInput(item_ty_input, items_input))
    ELSE LET v == FromInput(item_ty_input, store)
         IN IF ~v.ok THEN v
            ELSE ItemsFromInput(item_ty_input, n - 1, v.store, Append(items_input, v.value))

StructFromInput(store, fields) ==
    LET h == ReadFieldHeader(store)
        value == FromInput(h.ty, h.store)
    IN IF ~h.ok THEN Failed(store)
       ELSE IF h.ty = TyStop THEN Read(h.store, DynamicStruct(fields))
       ELSE IF ~value.ok THEN value
       ELSE StructFromInput(value.store, BTreeMapInsert(fields, h.index, value.value))

\* Value::from_slice for DynamicStruct
FromSlice(slice) == StructFromInput(slice, << >>)

\* The dynamic structs encoded. Leaves: numbers, one float (1.0), payloads,
\* the empty struct, the empty lists of four item types. StructsOf(A, B): a
\* struct with the field 0 (values from A), the field 255 (values from B),
\* both or neither. ListsOf(t, S): the lists of one or two items of S, tagged
\* t. The structs hold leaves, lists, lists of lists, lists of structs and
\* structs in field 0, and leaves in field 255.
DynamicStructs ==
    LET LeafI64 == { DynamicI64(v) : v \in { -1, 0, 258 } }
        LeafF64 == { DynamicF64(<< 63, 240, 0, 0, 0, 0, 0, 0 >>) }
        LeafBytes == { DynamicBytes(b) : b \in { << >>, << 255, 0 >> } }
        LeafList == { DynamicList(t, << >>) : t \in { TyAny, TyI64, TyList, TyStruct } }
        Leaves == LeafI64 \cup LeafF64 \cup LeafBytes \cup { DynamicStruct(<< >>) }
                  \cup LeafList
        StructsOf(A, B) ==
            { DynamicStruct(<< >>) }
            \cup { DynamicStruct(<< [ index |-> 0, value |-> a ] >>) : a \in A }
            \cup { DynamicStruct(<< [ index |-> 255, value |-> b ] >>) : b \in B }
            \cup { DynamicStruct(<< [ index |-> 0, value |-> a ],
                                    [ index |-> 255, value |-> b ] >>) : a \in A, b \in B }
        ListsOf(t, S) ==
            { DynamicList(t, items) : items \in [ 1 .. 1 -> S ] \cup [ 1 .. 2 -> S ] }
        Nested ==
            Leaves
            \cup ListsOf(TyI64, LeafI64) \cup ListsOf(TyF64, LeafF64)
            \cup ListsOf(TyBytes, LeafBytes)
            \cup ListsOf(TyStruct, StructsOf(LeafI64, LeafList))
            \cup ListsOf(TyList, LeafList \cup ListsOf(TyBytes, LeafBytes))
            \cup StructsOf(Leaves, LeafBytes)
    IN StructsOf(Nested, Leaves)

InitValue ==
    /\ KeyIdle
    /\ \E st \in DynamicStructs : last = [ op |-> "struct", st |-> st ]

\* buffer = st.to_vec(); st_back = DynamicStruct::from_slice(&buffer);
\* buffer_again = st_back.to_vec()
ValueRoundTrip ==
    /\ last.op = "struct"
    /\ LET buffer == ToVec(last.st)
           back == FromSlice(buffer)
       IN last' = [ op |-> "round_trip", st |-> last.st, buffer |-> buffer,
                    ok |-> back.ok, st_back |-> back.value,
                    buffer_again |-> IF back.ok THEN ToVec(back.value) ELSE << >> ]
    /\ KeyUnchanged

SpecValue == InitValue /\ [][ValueRoundTrip]_vars

\* ------------------------------------------------- typed structs (derive)
\* A struct deriving Value is the sequence of its declared fields, each the
\* declared index and the field's value: TestModel { val_1: i64 @ 1,
\* val_2: f64 @ 2 } of test_derive, and its Default.
TestModel(val_1, val_2) ==
    << [ index |-> 1, value |-> DynamicI64(val_1) ],
       [ index |-> 2, value |-> DynamicF64(val_2) ] >>

TestModelDefault == TestModel(0, << 0, 0, 0, 0, 0, 0, 0, 0 >>)

\* Variant: the derived to_output without the closing write_stop.
RECURSIVE TypedToOutputNoStop(_)
TypedToOutputNoStop(m) ==
    IF m = << >> THEN << >>
    ELSE WriteFieldHeader(Head(m).value.ty, Head(m).index)
         \o ToOutput(Head(m).value) \o TypedToOutputNoStop(Tail(m))

\* The derived to_output: for every declared field in declaration order
\* write_field_header(self.f.ty(), index) and self.f.to_output(output), then
\* write_stop.
RECURSIVE TypedToOutput(_)
TypedToOutput(m) ==
    IF m = << >> THEN WriteStop
    ELSE WriteFieldHeader(Head(m).value.ty, Head(m).index)
         \o ToOutput(Head(m).value) \o TypedToOutput(Tail(m))

\* InputProtocol::skip_field: ok and the store left. Skipping an item of type
\* Any or Stop reads nothing, whatever the size of the list.
RECURSIVE SkipField(_, _)
RECURSIVE SkipItems(_, _, _)
RECURSIVE SkipStruct(_)
\* Variant: skip_field that reads the header of a list and leaves its items.
SkipFieldListHeaderOnly(ty, store) ==
    IF ty \in { TyAny, TyStop } THEN [ ok |-> TRUE, store |-> store ]
    ELSE IF ty \in { TyI64, TyF64 }
    THEN [ ok |-> ReadNBytes(store, 8).ok, store |-> ReadNBytes(store, 8).store ]
    ELSE IF ty = TyBytes
    THEN [ ok |-> ReadBytes(store).ok, store |-> ReadBytes(store).store ]
    ELSE IF ty = TyList
    THEN [ ok |-> ReadListHeader(store).ok, store |-> ReadListHeader(store).store ]
    ELSE SkipStruct(store)

SkipField(ty, store) ==
    IF ty \in { TyAny, TyStop } THEN [ ok |-> TRUE, store |-> store ]
    ELSE IF ty \in { TyI64, TyF64 }
    THEN [ ok |-> ReadNBytes(store, 8).ok, store |-> ReadNBytes(store, 8).store ]
    ELSE IF ty = TyBytes
    THEN [ ok |-> ReadBytes(store).ok, store |-> ReadBytes(store).store ]
    ELSE IF ty = TyList
    THEN (IF ReadListHeader(store).ok
          THEN SkipItems(ReadListHeader(store).ty, ReadListHeader(store).n,
                         ReadListHeader(store).store)
          ELSE [ ok |-> FALSE, store |-> store ])
    ELSE SkipStruct(store)

SkipItems(item_ty, size, store) ==
    IF size = 0 \/ item_ty \in { TyAny, TyStop } THEN [ ok |-> TRUE, store |-> store ]
    ELSE LET r == SkipField(item_ty, store)
         IN IF ~r.ok THEN r ELSE SkipItems(item_ty, size - 1, r.store)

SkipStruct(store) ==
    LET h == ReadFieldHeader(store)
        r == SkipField(h.ty, h.store)
    IN IF ~h.ok THEN [ ok |-> FALSE, store |-> store ]
       ELSE IF h.ty = TyStop THEN [ ok |-> TRUE, store |-> h.store ]
       ELSE IF ~r.ok THEN r
       ELSE SkipStruct(r.store)

\* The derived from_input on the struct m: a declared index reads the field
\* with the from_input of the field's own type, any other index is skipped
\* by the type of its header.
RECURSIVE TypedFromInput(_, _)
TypedFromInput(m, store) ==
    LET h == ReadFieldHeader(store)
        declared == { j \in 1 .. Len(m) : m[j].index = h.index }
        j == CHOOSE j \in declared : TRUE
        v == FromInput(m[j].value.ty, h.store)
        r == SkipField(h.ty, h.store)
    IN IF ~h.ok THEN Failed(store)
       ELSE IF h.ty = TyStop THEN Read(h.store, m)
       ELSE IF declared # {}
       THEN (IF ~v.ok THEN v
             ELSE TypedFromInput([ m EXCEPT ![j].value = v.value ], v.store))
       ELSE IF ~r.ok THEN Failed(store)
       ELSE TypedFromInput(m, r.store)

\* The bytes a newer writer produces for TestModel: the declared fields with
\* a field of an undeclared index (0, 7, 255) before, between and after
\* them, each present or not; the undeclared fields hold every wire type,
\* lists of lists and structs of lists of structs.
InitTyped ==
    /\ KeyIdle
    /\ \E val_1 \in { -1, 12345 },
          val_2 \in { << 64, 94, 192, 0, 0, 0, 0, 0 >>, << 127, 248, 0, 0, 0, 0, 0, 1 >> },
          pos \in [ 1 .. 3 -> 0 .. 1 ],
          u \in { DynamicI64(258), DynamicF64(<< 63, 240, 0, 0, 0, 0, 0, 0 >>),
                  DynamicBytes(<< >>), DynamicBytes(<< 255, 255, 0 >>),
                  DynamicList(TyAny, << >>),
                  DynamicList(TyI64, << DynamicI64(0), DynamicI64(-1) >>),
                  DynamicList(TyList, << DynamicList(TyBytes, << DynamicBytes(<< 5 >>) >>),
                                         DynamicList(TyAny, << >>) >>),
                  DynamicStruct(<< >>),
                  DynamicStruct(<< [ index |-> 1, value |-> DynamicI64(7) ],
                                   [ index |-> 2, value |->
                                       DynamicList(TyStruct,
                                           << DynamicStruct(<< [ index |-> 255, value |->
                                                 DynamicBytes(<< 0 >>) ] >>),
                                              DynamicStruct(<< >>) >>) ] >>) },
          w \in { DynamicI64(1), DynamicList(TyStruct, << DynamicStruct(<< >>) >>) } :
          last = [ op |-> "typed", m |-> TestModel(val_1, val_2),
                   fields |->
                      (IF pos[1] = 1 THEN << [ index |-> 0, value |-> u ] >> ELSE << >>)
                      \o << TestModel(val_1, val_2)[1] >>
                      \o (IF pos[2] = 1 THEN << [ index |-> 7, value |-> w ] >> ELSE << >>)
                      \o << TestModel(val_1, val_2)[2] >>
                      \o (IF pos[3] = 1 THEN << [ index |-> 255, value |-> u ] >> ELSE << >>) ]

\* TestModel::from_slice on the bytes with the undeclared fields and on the
\* bytes m.to_vec() without them.
TypedDecode ==
    /\ last.op = "typed"
    /\ last' = [ op |-> "typed_decode", m |-> last.m, fields |-> last.fields,
                 buf |-> TypedToOutput(last.m),
                 with |-> TypedFromInput(TestModelDefault, TypedToOutput(last.fields)),
                 without |-> TypedFromInput(TestModelDefault, TypedToOutput(last.m)) ]
    /\ KeyUnchanged

SpecTyped == InitTyped /\ [][TypedDecode]_vars

\* Any byte string of at most MaxInput octets, over type octets (valid and
\* not) and small numbers, handed to DynamicStruct::from_slice or to
\* TestModel::from_slice.
InitDecode ==
    /\ KeyIdle
    /\ \E slice \in SeqsUpTo({ 0, 1, 3, 4, 5, 9, 255 }, MaxInput) :
          last = [ op |-> "slice", slice |-> slice ]

Decode(decoder) ==
    /\ last.op = "slice"
    /\ LET r == IF decoder = "DynamicStruct" THEN FromSlice(last.slice)
                ELSE TypedFromInput(TestModelDefault, last.slice)
       IN last' = [ op |-> "from_slice", decoder |-> decoder, slice |-> last.slice,
                    ok |-> r.ok, panic |-> r.panic ]
    /\ KeyUnchanged

SpecDecode == InitDecode /\ [][\E d \in { "DynamicStruct", "TestModel" } : Decode(d)]_vars

\* ===================================================================
\* Properties
\* ===================================================================
LatestOf(rs, k) == { j \in DOMAIN rs : rs[j].key = k /\ rs[j].is_latest }
RowsOf(rs, k) == { j \in DOMAIN rs : rs[j].key = k }
DataOps == { "insert", "insert_batch", "delete", "delete_with_version", "update" }

\* C1: in every reachable state at most one physical row per key has
\* is_latest = 1.
C1_LatestUniqueness == \A k \in Keys : Cardinality(LatestOf(rows, k)) <= 1

\* C1 witness: an insert has just failed on a key that has several physical
\* rows, the latest of them a tombstone.
C1_Witness ==
    /\ last.op = "insert" /\ ~last.ok /\ created
    /\ Cardinality(RowsOf(rows, last.key)) >= 2
    /\ Cardinality(LatestOf(rows, last.key)) = 1
    /\ \A j \in LatestOf(rows, last.key) : rows[j].is_deleted

\* The index rows the latest rows call for: for every logically present pk,
\* every key its extractor yields for the latest value.
ExpectedIndex(i, rs) ==
    UNION { { << ik, k >> : ik \in Range(Extractor(i, k, Unwrap(Get(rs, k)).value).keys) }
            : k \in { q \in Keys : IsSome(Get(rs, q)) } }

\* An attached index whose sub-tables exist.
Maintained(i) ==
    created /\ i \in Range(indexes) /\ DataTable(i) \in tables /\ ConfigTable(i) \in tables

IndexConsistent == \A i \in IndexNames : Maintained(i) => idx[i] = ExpectedIndex(i, rows)

\* C2: index consistency is kept by every insert, insert_batch, delete,
\* delete_with_version and update: if every attached index holds exactly the
\* expected (ik, pk) rows before the call, it does so after it.
C2_IndexConsistency ==
    [][ (last'.op \in DataOps /\ IndexConsistent) => IndexConsistent' ]_vars

\* C3: get(k) is what the abstract map holds for k: the (value, version) of
\* the most recent successful insert if no successful delete followed it,
\* None otherwise.
C3_GetAgrees == \A k \in Keys : Get(rows, k) = abs[k]

\* C3 witness: a key that was inserted has just been deleted (get gives None
\* for it) while the other key is present (get gives its value and version).
C3_Witness ==
    /\ last.op \in { "delete", "delete_with_version" } /\ last.ok /\ last.ret > 0
    /\ Get(rows, last.key) = None
    /\ \E k \in Keys \ { last.key } : IsSome(Get(rows, k)) /\ IsSome(abs[k])

\* C4: delete_with_version(k, v) returns nonzero iff the latest row of k had
\* version v at call time; a nonzero result is the rowid of a newly appended
\* tombstone that is then the latest row of k.
C4_OptimisticDelete ==
    [][ (last'.op = "delete_with_version" /\ last'.ok) =>
          /\ (last'.ret # 0) <=>
                (\E j \in DOMAIN rows : /\ rows[j].key = last'.key
                                        /\ rows[j].is_latest
                                        /\ rows[j].rowid = last'.version)
          /\ (last'.ret # 0) =>
                /\ Len(rows') = Len(rows) + 1
                /\ \A j \in DOMAIN rows : rows[j].rowid # last'.ret
                /\ LET t == rows'[Len(rows')]
                   IN /\ t.rowid = last'.ret
                      /\ t.key = last'.key
                      /\ t.is_deleted /\ t.is_latest
                /\ LatestOf(rows', last'.key) = { Len(rows') } ]_vars

\* C4 witness: a delete_with_version has succeeded on a key that had an
\* older, superseded version.
C4_Witness ==
    /\ last.op = "delete_with_version" /\ last.ok /\ last.ret # 0
    /\ Cardinality(RowsOf(rows, last.key)) >= 3

\* C5: every version a call hands out (returned by insert, delete,
\* delete_with_version or update, or carried by an event) is strictly greater
\* than every version assigned to a row before the call.
C5_VersionsMonotonic ==
    [][ (last'.op \in DataOps /\ last'.ok) =>
          /\ last'.ret > 0 => \A j \in DOMAIN rows : rows[j].rowid < last'.ret
          /\ \A e \in Range(last'.events) :
                IsSome(e.to) => \A j \in DOMAIN rows : rows[j].rowid < Unwrap(e.to).version
          /\ \A j \in DOMAIN rows' \ DOMAIN rows :
                \A h \in DOMAIN rows' : h < j => rows'[h].rowid < rows'[j].rowid ]_vars

\* C5 witness: a call returned a version after rows of the same key were
\* superseded and deleted.
C5_Witness ==
    /\ last.op \in DataOps /\ last.ok /\ last.ret = Len(rows) /\ last.ret >= 3
    /\ \E j \in DOMAIN rows : rows[j].is_deleted

\* C6: with the tables in place, insert(key, value) succeeds whatever the
\* state of the key: it clears is_latest on the key's latest row, appends a
\* live latest row with the value and returns its version.
C6_InsertAlwaysSucceeds ==
    [][ (/\ last'.op = "insert"
         /\ created
         /\ \A i \in Range(indexes) : Maintained(i)) =>
          /\ last'.ok
          /\ Len(rows') = Len(rows) + 1
          /\ LET t == rows'[Len(rows')]
             IN /\ t.rowid = last'.ret
                /\ t.key = last'.key /\ t.value = last'.value
                /\ t.is_latest /\ ~t.is_deleted
          /\ \A j \in DOMAIN rows :
                rows'[j] = IF rows[j].key = last'.key
                           THEN [ rows[j] EXCEPT !.is_latest = FALSE ] ELSE rows[j] ]_vars

\* C7: after delete or delete_with_version returned a nonzero tombstone
\* version, no attached index holds a row whose pk is the deleted key.
C7_DeleteReachesIndexes ==
    (last.op \in { "delete", "delete_with_version" } /\ last.ok /\ last.ret # 0) =>
        \A i \in Range(indexes) : \A p \in idx[i] : p[2] # last.key

\* The watermark as a number: an absent config row counts as 0.
Watermark(w) == IF IsSome(w) THEN Unwrap(w) ELSE 0

\* C8: the persisted watermark of an index never decreases, for as long as
\* the index's config table exists.
C8_WatermarkMonotonic ==
    [][ \A i \in IndexNames :
          (ConfigTable(i) \in tables /\ ConfigTable(i) \in tables') =>
              Watermark(wm[i]) <= Watermark(wm'[i]) ]_vars

\* C8 witness: a create_table catch-up has replayed rows and left the
\* watermark above that of an earlier insert.
C8_Witness ==
    /\ last.op = "create_table" /\ last.ok /\ last.replayed >= 1
    /\ Watermark(wm["a"]) >= 2

\* C9: for every index with watermark w, every latest row with version <= w
\* is reflected in the index: a live row has exactly its extractor's keys, a
\* tombstone has no index rows.
C9_WatermarkSound ==
    \A i \in IndexNames :
        (ConfigTable(i) \in tables /\ IsSome(wm[i])) =>
            \A j \in DOMAIN rows :
                (rows[j].is_latest /\ rows[j].rowid <= Unwrap(wm[i])) =>
                    InnerGetPrevKeys(idx[i], rows[j].key) =
                        IF rows[j].is_deleted THEN {}
                        ELSE Range(Extractor(i, rows[j].key, rows[j].value).keys)

\* C10: right after a create_table that completed, running create_table
\* again succeeds and changes no index row and no watermark.
C10_CatchUpIdempotent ==
    (last.op = "create_table" /\ last.ok) =>
        LET again == CreateTableResult(indexes, tables, idx, wm, conf2, rows)
        IN again.ok /\ again.idx = idx /\ again.wm = wm

\* C10 witness: a create_table has completed whose catch-up replayed rows
\* of both keys into an index.
C10_Witness ==
    /\ last.op = "create_table" /\ last.ok /\ last.replayed >= 2
    /\ \A k \in Keys : InnerGetPrevKeys(idx["a"], k) # {}

\* C11: whatever the history of inserts, updates and deletes, a create_table
\* on a Table with attached indexes (new or stale) succeeds and leaves each
\* attached index holding exactly the (ik, pk) rows of the logically present
\* pks' latest values.
C11_CatchUpComplete ==
    (last.op = "create_table" /\ indexes # << >>) =>
        /\ last.ok
        /\ \A i \in Range(indexes) : idx[i] = ExpectedIndex(i, rows)

\* C12: a delete_with_version that returns 0 changes nothing: the data rows
\* with their is_latest flags, the index rows, the watermarks and the tracked
\* sub-tables are as before the call, no observer is called, and get of the
\* key returns what it returned before.
C12_RejectedDeleteChangesNothing ==
    [][ (last'.op = "delete_with_version" /\ last'.ok /\ last'.ret = 0) =>
          /\ UNCHANGED << rows, seq, idx, wm, tables, conf2 >>
          /\ ~last'.notified /\ last'.events = << >>
          /\ Get(rows', last'.key) = Get(rows, last'.key) ]_vars

\* C12 witness: a delete_with_version was rejected for a stale version of a
\* logically present key (an older row of the key carries that version) whose
\* index rows are stored.
C12_Witness ==
    /\ last.op = "delete_with_version" /\ last.ok /\ last.ret = 0
    /\ IsSome(Get(rows, last.key))
    /\ \E j \in RowsOf(rows, last.key) :
          rows[j].rowid = last.version /\ ~rows[j].is_latest
    /\ InnerGetPrevKeys(idx["a"], last.key) # {}

\* C13: delete(key) on a key without a row with is_latest = 1 returns 0 and
\* changes nothing; otherwise it clears is_latest on the key's latest row,
\* appends a tombstone (is_latest = 1, is_deleted = 1, empty value) and
\* returns the tombstone's rowid.
C13_Delete ==
    [][ (last'.op = "delete" /\ created) =>
          /\ last'.ok
          /\ IF LatestOf(rows, last'.key) = {}
             THEN /\ last'.ret = 0
                  /\ UNCHANGED << rows, seq, idx, wm, tables, conf2 >>
             ELSE /\ Len(rows') = Len(rows) + 1
                  /\ \A j \in DOMAIN rows :
                        rows'[j] = IF j \in LatestOf(rows, last'.key)
                                   THEN [ rows[j] EXCEPT !.is_latest = FALSE ]
                                   ELSE rows[j]
                  /\ LET t == rows'[Len(rows')]
                     IN /\ t.key = last'.key /\ t.is_latest /\ t.is_deleted
                        /\ t.value = ""
                        /\ t.rowid = last'.ret
                        /\ \A j \in DOMAIN rows : rows[j].rowid < t.rowid ]_vars

\* C13 witness: a delete of a logically present key with an older version
\* has appended the tombstone it returned.
C13_Witness ==
    /\ last.op = "delete" /\ last.ok /\ last.ret > 0
    /\ Cardinality(RowsOf(rows, last.key)) >= 3
    /\ rows[Len(rows)].rowid = last.ret /\ rows[Len(rows)].is_deleted
    /\ \E j \in RowsOf(rows, last.key) : ~rows[j].is_deleted /\ rows[j].rowid = last.ret - 1

\* C14: a successful insert(key, value) returning v calls the observers once,
\* with the row of version v committed, handing them one item {key, from, to}
\* with to = (value, v) and from = what get(key) returned right before the
\* insert (None if the key was not logically present); an insert that fails
\* calls no observer.
C14_InsertNotifies ==
    [][ (last'.op = "insert") =>
          IF last'.ok
          THEN /\ last'.notified
               /\ last'.events = << [ key |-> last'.key,
                                      from |-> Get(rows, last'.key),
                                      to |-> Some([ value |-> last'.value,
                                                    version |-> last'.ret ]) ] >>
               /\ Get(rows', last'.key) = Some([ value |-> last'.value,
                                                 version |-> last'.ret ])
          ELSE ~last'.notified /\ last'.events = << >> ]_vars

\* C14 witness: an insert over a logically present key has succeeded and
\* delivered an item whose from side is the superseded (value, version).
C14_Witness ==
    /\ last.op = "insert" /\ last.ok /\ last.notified /\ Len(last.events) = 1
    /\ IsSome(last.events[1].from)
    /\ Unwrap(last.events[1].from).version < last.ret
    /\ Unwrap(last.events[1].from).value # last.value

\* C15: a delete_with_version(key, expected_version) that succeeds (returns
\* a nonzero version) calls the observers once, handing them one item with
\* that key, from = (the value of the row superseded, expected_version) and
\* to = None.
C15_DeleteWithVersionNotifies ==
    [][ (last'.op = "delete_with_version" /\ last'.ok /\ last'.ret # 0) =>
          /\ last'.notified
          /\ Len(last'.events) = 1
          /\ last'.events[1].key = last'.key
          /\ last'.events[1].to = None
          /\ IsSome(last'.events[1].from)
          /\ Unwrap(last'.events[1].from).version = last'.version
          /\ \E j \in LatestOf(rows, last'.key) :
                /\ rows[j].rowid = last'.version
                /\ rows[j].value = Unwrap(last'.events[1].from).value ]_vars

\* A step leaves the database as it was and calls no observer.
NothingDone ==
    /\ UNCHANGED << rows, seq, idx, wm, tables, conf2 >>
    /\ ~last'.notified /\ last'.events = << >>

\* The step applied the items of last'.items in input order: one new live row
\* per item, in order, the latest flag left on the last row of each key, and
\* one event with one item per input pair, each from side being the previous
\* item of the same key in the batch or else what get returned before.
BatchAppliedInOrder ==
    LET kvs == last'.items
        n == Len(kvs)
        base == Len(rows)
        EarlierSame(i) == { j \in 1..(i - 1) : kvs[j][1] = kvs[i][1] }
        Max(S) == CHOOSE m \in S : \A q \in S : q <= m
    IN /\ Len(rows') = base + n
       /\ \A j \in DOMAIN rows :
             rows'[j] = IF \E i \in 1..n : kvs[i][1] = rows[j].key
                        THEN [ rows[j] EXCEPT !.is_latest = FALSE ] ELSE rows[j]
       /\ \A i \in 1..n :
             LET t == rows'[base + i]
             IN /\ t.key = kvs[i][1] /\ t.value = kvs[i][2] /\ ~t.is_deleted
                /\ t.is_latest = ~ \E j \in (i + 1)..n : kvs[j][1] = kvs[i][1]
                /\ \A h \in 1..(base + i - 1) : rows'[h].rowid < t.rowid
       /\ last'.notified
       /\ Len(last'.events) = n
       /\ \A i \in 1..n :
             LET e == last'.events[i]
             IN /\ e.key = kvs[i][1]
                /\ e.to = Some([ value |-> kvs[i][2], version |-> rows'[base + i].rowid ])
                /\ e.from = IF EarlierSame(i) = {} THEN Get(rows, kvs[i][1])
                            ELSE Some([ value |-> kvs[Max(EarlierSame(i))][2],
                                        version |-> rows'[base + Max(EarlierSame(i))].rowid ])

\* C16 as stated: insert_batch is all-or-nothing. A batch that fails leaves
\* data rows, flags, index rows and watermarks as before and calls no
\* observer; a batch that succeeds has applied all items in input order and
\* the observers received one event with one item per input pair, in order.
C16_BatchAllOrNothing ==
    [][ (last'.op = "insert_batch") =>
          IF last'.ok THEN BatchAppliedInOrder ELSE NothingDone ]_vars

\* C16 amended: as C16, for a batch with at least one pair; the empty batch
\* returns Ok, changes nothing and calls no observer.
C16_BatchAllOrNothingNonEmpty ==
    [][ (last'.op = "insert_batch") =>
          IF ~last'.ok \/ last'.items = << >> THEN NothingDone
          ELSE BatchAppliedInOrder ]_vars

\* C16 witness: a batch of two pairs has failed on its second pair, whose
\* value the extractor of "e" rejects, after its first pair was inserted and
\* indexed (the attached indexes have their sub-tables), and was rolled back.
C16_Witness ==
    /\ last.op = "insert_batch" /\ ~last.ok /\ created
    /\ Len(last.items) = 2
    /\ last.items[1][1] # last.items[2][1]
    /\ indexes = << "a", "e" >>
    /\ \A i \in Range(indexes) : Maintained(i)
    /\ Extractor("e", last.items[1][1], last.items[1][2]).ok
    /\ ~Extractor("e", last.items[2][1], last.items[2][2]).ok
    /\ rows # << >>

\* The step had the effect and the result of the outcome o.
SameEffect(o) ==
    /\ rows' = o.db.rows /\ seq' = o.db.seq /\ idx' = o.db.idx /\ wm' = o.db.wm
    /\ UNCHANGED << tables, conf2 >>
    /\ last'.ok = o.ok /\ last'.notified = o.notified /\ last'.events = o.events

\* C17: update(key, f) calls f with what get(key) returns. If f answers
\* NotChange, update returns None and nothing changes; if Update(new), the
\* effect and the returned version are those of insert(key, new); if Delete,
\* the effect is that of delete_with_version(key, version passed to f)
\* (version 0, which no row has, when f was passed None).
C17_UpdateDispatch ==
    [][ (last'.op = "update" /\ created) =>
          LET prev == Get(rows, last'.key)
              f == UpdateF(last'.value, prev)
          IN IF f = "Err" THEN ~last'.ok /\ NothingDone
             ELSE IF f = "NotChange"
             THEN last'.ok /\ last'.ret = -1 /\ NothingDone
             ELSE IF f = "Delete"
             THEN SameEffect(TableDeleteWithVersion(Db, last'.key,
                                 IF IsSome(prev) THEN Unwrap(prev).version ELSE 0))
             ELSE /\ SameEffect(TableInsert(Db, indexes, tables, last'.key, f))
                  /\ last'.ret = TableInsert(Db, indexes, tables, last'.key, f).ret ]_vars

\* C17 witness: an update whose closure inspects the previous value has been
\* passed the stored "y" and deleted the key.
C17_Witness ==
    /\ last.op = "update" /\ last.value = "Step" /\ last.ok /\ last.ret > 0
    /\ rows[Len(rows)].is_deleted /\ rows[Len(rows)].key = last.key
    /\ \E j \in RowsOf(rows, last.key) : rows[j].rowid = last.ret - 1 /\ rows[j].value = "y"

\* C18: whenever update returns Some(v), v is the version of a physical row
\* this very call appended (so v > 0); in particular update reports no
\* version when f answers Delete for a key that is not logically present.
C18_UpdateReturnsNewVersion ==
    [][ (last'.op = "update" /\ last'.ok /\ last'.ret # -1) =>
          /\ last'.ret > 0
          /\ \E j \in DOMAIN rows' \ DOMAIN rows :
                rows'[j].rowid = last'.ret /\ rows'[j].key = last'.key ]_vars

\* C19: update is atomic with respect to other connections: when an update
\* writes, the row its write supersedes is exactly the row whose (value,
\* version) was passed to its f (no row if f was passed None), so what f was
\* passed is what get returns right before the write: no update computed
\* from a stale value is committed.
C19_UpdateAtomic ==
    [][ \A cn \in Conns :
          (pending[cn] # None /\ pending'[cn] = None /\ rows' # rows) =>
              LET u == Unwrap(pending[cn])
                  superseded == { j \in DOMAIN rows :
                                    rows[j].is_latest /\ ~rows'[j].is_latest }
              IN /\ Get(rows, u.key) = u.prev
                 /\ superseded = IF IsSome(u.prev)
                                 THEN { j \in DOMAIN rows :
                                          rows[j].rowid = Unwrap(u.prev).version }
                                 ELSE {} ]_vars

\* C20: a failure during index maintenance aborts the whole insert: if the
\* extractor of an attached index fails for the row, insert returns the
\* error; and after an insert that returned an error the data table, the rows
\* of every index (those updated earlier in the call included) and every
\* watermark are as before the call, and no observer was called.
C20_IndexFailureAborts ==
    [][ (last'.op = "insert") =>
          /\ (created /\ \E i \in Range(indexes) :
                            ~Extractor(i, last'.key, last'.value).ok) => ~last'.ok
          /\ ~last'.ok => NothingDone ]_vars

\* C20 witness: with "a" attached before "e" and all sub-tables in place, an
\* insert of a value that "e" cannot extract from has failed, on a key that
\* could be inserted and for which "a" had a new index key to write.
C20_Witness ==
    /\ last.op = "insert" /\ ~last.ok /\ created
    /\ indexes = << "a", "e" >>
    /\ \A i \in Range(indexes) : Maintained(i)
    /\ ~Extractor("e", last.key, last.value).ok
    /\ \A j \in LatestOf(rows, last.key) : ~rows[j].is_deleted
    /\ << "y", last.key >> \notin idx["a"]
    /\ rows # << >>

\* C21: the history is append-only. No step removes a physical data row or
\* changes its rowid, key, value or is_deleted; only is_latest changes, and
\* only from 1 to 0. Hence get_by_version of an existing version never
\* changes: a successful insert(k, val) returning v makes get_by_version(k, v)
\* return val, which it returns in every later state, and get_by_version of a
\* tombstone's version returns None.
C21_AppendOnly ==
    [][ /\ Len(rows') >= Len(rows)
        /\ \A j \in DOMAIN rows :
              /\ rows'[j] = [ rows[j] EXCEPT !.is_latest = rows'[j].is_latest ]
              /\ rows'[j].is_latest => rows[j].is_latest
        /\ \A k \in Keys : \A j \in DOMAIN rows :
              GetByVersion(rows', k, rows[j].rowid) = GetByVersion(rows, k, rows[j].rowid)
        /\ (last'.op = "insert" /\ last'.ok) =>
              GetByVersion(rows', last'.key, last'.ret) = Some(last'.value)
        /\ \A j \in DOMAIN rows' :
              rows'[j].is_deleted =>
                  GetByVersion(rows', rows'[j].key, rows'[j].rowid) = None ]_vars

\* C21 witness: a key has been inserted, overwritten and deleted, and
\* get_by_version still returns the first value for the first version.
C21_Witness ==
    /\ last.op \in { "delete", "delete_with_version" } /\ last.ok /\ last.ret = 3
    /\ Cardinality(RowsOf(rows, last.key)) = 3
    /\ ~rows[1].is_latest /\ ~rows[1].is_deleted
    /\ GetByVersion(rows, last.key, 1) = Some(rows[1].value)
    /\ GetByVersion(rows, last.key, 2) # GetByVersion(rows, last.key, 1)
    /\ GetByVersion(rows, last.key, 3) = None

\* The stored pairs of the index just read whose ik equals / is at least the
\* requested key.
ExactMatches == { p \in idx[last.index] : p[1] = Unwrap(last.options.lower_key).ik }
AtLeastMatches ==
    { p \in idx[last.index] :
        ~BytesLess(BytesOf(p[1]), BytesOf(Unwrap(last.options.lower_key).ik)) }

\* C22: get_by_index returns the exact matches of the requested index key:
\* when count is at least the number of stored rows whose ik equals the
\* requested key, the result is exactly those rows (one pair, for an index
\* that maps each record to a single key of its own). Stated for the counts
\* below u32::MAX.
C22_GetByIndexExact ==
    (/\ last.op = "get_by_index"
     /\ Maintained(last.index)
     /\ last.options.count # U32Max
     /\ ~LenExceeds(Cardinality(ExactMatches), last.options.count)) =>
        /\ last.ok
        /\ Range(last.keys) = ExactMatches
        /\ Len(last.keys) = Cardinality(ExactMatches)

\* C23: get_by_index(index_name, ik, count) is a lower-bound scan: for an
\* attached index it returns the first min(count, n) of the n stored pairs
\* with ik' >= ik, in ascending (ik', pk) byte order, without clipping to
\* ik' = ik; for a name that is not attached it returns the missing-index
\* error and no pair.
C23_GetByIndexLowerBound ==
    (last.op = "get_by_index") =>
        IF last.index \notin Range(indexes)
        THEN last.missing /\ ~last.ok /\ last.keys = << >>
        ELSE Maintained(last.index) =>
                /\ last.ok
                /\ last.keys = SubSeq(OrderBy(AtLeastMatches, "Asc"), 1,
                                      Limit(Cardinality(AtLeastMatches), last.options.count))

\* A pair satisfies the bounds of the scan options, each bound taken with its
\* inclusive flag; an absent bound excludes nothing.
Satisfies(p, options) ==
    /\ IsSome(options.lower_key) =>
          LET b == Unwrap(options.lower_key)
          IN IF b.inclusive THEN PairLessEq(<< b.ik, b.pk >>, p)
             ELSE PairLess(<< b.ik, b.pk >>, p)
    /\ IsSome(options.higher_key) =>
          LET b == Unwrap(options.higher_key)
          IN IF b.inclusive THEN PairLessEq(p, << b.ik, b.pk >>)
             ELSE PairLess(p, << b.ik, b.pk >>)

\* The stored pairs of the index just scanned that satisfy the bounds.
Satisfying == { p \in idx[last.index] : Satisfies(p, last.options) }

\* C24: scan paging. For any bounds, order and positive count, scan returns
\* at most count pairs, they are the first pairs in the requested (ik, pk)
\* order among the stored pairs satisfying the bounds, and has_more is true
\* iff more than count stored pairs satisfy the bounds.
C24_ScanPaging ==
    (last.op = "scan" /\ Maintained(last.index)) =>
        /\ last.ok
        /\ ~LenExceeds(Len(last.keys), last.options.count)
        /\ last.keys = SubSeq(OrderBy(Satisfying, last.options.order), 1,
                              Limit(Cardinality(Satisfying), last.options.count))
        /\ last.has_more = LenExceeds(Cardinality(Satisfying), last.options.count)

\* C25: the bounds of a scan are optional and honour their inclusive flag: a
\* scan succeeds with any of the bounds absent (neither given: the whole
\* index), every pair it returns satisfies the bounds, a pair equal to a bound
\* with inclusive = false being excluded, and when has_more is false the
\* pairs returned are all the stored pairs satisfying the bounds. Stated for
\* the counts below u32::MAX.
C25_ScanBounds ==
    (last.op = "scan" /\ Maintained(last.index) /\ last.options.count # U32Max) =>
        /\ last.ok
        /\ \A p \in Range(last.keys) : Satisfies(p, last.options)
        /\ ~last.has_more => Range(last.keys) = Satisfying

\* What f is to be called with for the rows rs: key, None for a tombstone and
\* Some(value) for a live row, and the rowid.
RECURSIVE ExpectedCalls(_)
ExpectedCalls(rs) ==
    IF rs = << >> THEN << >>
    ELSE << << Head(rs).key,
               IF Head(rs).is_deleted THEN None ELSE Some(Head(rs).value),
               Head(rs).rowid >> >> \o ExpectedCalls(Tail(rs))

\* C26: scan_to_end(from_version, f) calls f exactly once for every row with
\* is_latest = 1 and rowid > from_version, in ascending rowid order, and for
\* no other row; with None as the value of a tombstone row and Some(value)
\* for a live row.
C26_ScanToEnd ==
    (last.op = "scan_to_end" /\ created) =>
        last.calls = ExpectedCalls(SelectSeq(rows,
                        LAMBDA r : r.is_latest /\ r.rowid > last.from_version))

\* The sub-tables of the attached indexes, and the sub-tables the tracking
\* row lists.
ActiveTables == UNION { { DataTable(i), ConfigTable(i) } : i \in Range(indexes) }
Tracked(c) == IF c = None THEN {} ELSE Range(Unwrap(c))

\* C27: associated-table reconciliation. After create_table returns, the
\* tracking row (conf key = 2) lists exactly the data and config sub-tables of
\* the attached indexes, every sub-table tracked before the call that does
\* not belong to an attached index has been dropped, and no sub-table of an
\* attached index (its watermark never lost or lowered) and no row of the data table has been
\* dropped or altered.
C27_Reconciliation ==
    [][ last'.op = "create_table" =>
          /\ conf2' # None /\ Tracked(conf2') = ActiveTables
          /\ (Tracked(conf2) \ ActiveTables) \cap tables' = {}
          /\ ActiveTables \subseteq tables'
          /\ \A i \in Range(indexes) :
                IsSome(wm[i]) => IsSome(wm'[i]) /\ Unwrap(wm'[i]) >= Unwrap(wm[i])
          /\ rows' = rows /\ seq' = seq ]_vars

\* C28: key round trip. For every sequence c of I64 and Bytes components
\* (payloads of any content: separators, empty, ending in a separator, at any
\* position), as_components(Key::from(c)) returns c.
C28_KeyRoundTrip ==
    last.op = "as_components" => ~last.out.panic /\ last.out.components = last.c

\* C28 witness: the round trip of three components, a payload ending in a
\* separator first, an empty payload second and a negative number last.
C28_Witness ==
    /\ last.op = "as_components" /\ Len(last.c) = 3
    /\ last.c[1].ty = 3 /\ last.c[1].b # << >> /\ last.c[1].b[Len(last.c[1].b)] = 0
    /\ last.c[2] = Bytes(<< >>)
    /\ last.c[3] = I64(-1)
    /\ last.out.components = last.c

\* C29: key order preservation. For component sequences l and r of length at
\* most 3 built from non-negative I64 values and Bytes payloads, comparing
\* Key::from(l) and Key::from(r) as byte strings gives what comparing l and r
\* componentwise gives.
C29_KeyOrder ==
    last.op = "cmp" => last.bytes = last.components

\* The empty list tagged Any.
EmptyAnyList == DynamicList(TyAny, << >>)

\* C30: dynamic value round trip. Encoding a dynamic struct, decoding the
\* bytes as a DynamicStruct and encoding again gives the bytes of the first
\* encoding; and a field holding an empty list tagged Any decodes to an empty
\* list tagged Any.
C30_DynamicRoundTrip ==
    last.op = "round_trip" =>
        /\ last.ok
        /\ last.buffer_again = last.buffer
        /\ Len(last.st_back.fields) = Len(last.st.fields)
        /\ \A j \in 1 .. Len(last.st.fields) :
              last.st.fields[j].value = EmptyAnyList =>
                  last.st_back.fields[j].value = EmptyAnyList

\* C30 witness: the round trip of a struct whose field 0 is a list of lists
\* holding an empty list tagged Any, and whose field 255 is an empty list
\* tagged Any.
C30_Witness ==
    /\ last.op = "round_trip" /\ last.ok /\ Len(last.st.fields) = 2
    /\ last.st.fields[1].value.ty = TyList
    /\ last.st.fields[1].value.item_ty = TyList
    /\ \E j \in 1 .. Len(last.st.fields[1].value.items) :
          last.st.fields[1].value.items[j] = EmptyAnyList
    /\ last.st.fields[2].value = EmptyAnyList
    /\ last.st_back.fields[2].value = EmptyAnyList

\* The undeclared fields of the bytes decoded.
Undeclared == { j \in 1 .. Len(last.fields) : last.fields[j].index \notin { 1, 2 } }

\* C31: forward compatibility. A typed struct decoder given bytes with
\* fields of indices it does not declare (any wire type, nested structs and
\* lists, before, between or after the declared fields) skips each by
\* consuming exactly the bytes of one value of the tagged type, and yields
\* the declared-field values it yields for the bytes without those fields.
C31_SkipUnknown ==
    last.op = "typed_decode" =>
        /\ last.with.ok /\ last.without.ok
        /\ last.with.value = last.without.value
        /\ last.with.store = << >>
        /\ \A j \in Undeclared :
              SkipField(last.fields[j].value.ty,
                        ToOutput(last.fields[j].value) \o << 9, 9 >>)
                  = [ ok |-> TRUE, store |-> << 9, 9 >> ]

\* C31 witness: undeclared fields before, between and after the declared
\* ones, the first a struct holding a list of structs, were decoded and the
\* declared values came out.
C31_Witness ==
    /\ last.op = "typed_decode" /\ Len(last.fields) = 5
    /\ last.fields[1].value.ty = TyStruct /\ Len(last.fields[1].value.fields) = 2
    /\ last.fields[3].value.ty = TyList
    /\ last.with.ok /\ last.with.value = last.m

\* C32: the typed encoding is bit-exact and round-trips. The encoder writes
\* for every declared field in declaration order the header (type octet,
\* declared index) and the body (the 8 bytes, big-endian, of an I64 or F64),
\* then FF FF; {val_1: 12345 @ 1, val_2: 123.0 @ 2} encodes to 01 01
\* be64(12345) 02 02 be64(bits of 123.0) FF FF; and from_slice(to_vec(m))
\* gives m.
C32_TypedEncoding ==
    last.op = "typed_decode" =>
        /\ Len(last.buf) = 22
        /\ SubSeq(last.buf, 1, 2) = << 1, 1 >>
        /\ SubSeq(last.buf, 3, 6) = (IF last.m[1].value.v < 0 THEN << 255, 255, 255, 255 >>
                                     ELSE << 0, 0, 0, 0 >>)
        /\ SubSeq(last.buf, 11, 12) = << 2, 2 >>
        /\ SubSeq(last.buf, 13, 20) = last.m[2].value.bytes
        /\ SubSeq(last.buf, 21, 22) = << 255, 255 >>
        /\ (last.m = TestModel(12345, << 64, 94, 192, 0, 0, 0, 0, 0 >>) =>
               last.buf = << 1, 1, 0, 0, 0, 0, 0, 0, 48, 57,
                             2, 2, 64, 94, 192, 0, 0, 0, 0, 0, 255, 255 >>)
        /\ (last.m[1].value.v = -1 =>
               SubSeq(last.buf, 7, 10) = << 255, 255, 255, 255 >>)
        /\ last.without.ok /\ last.without.value = last.m

\* C32 witness: the struct {val_1: 12345, val_2: 123.0} was encoded and read
\* back.
C32_Witness ==
    /\ last.op = "typed_decode"
    /\ last.m = TestModel(12345, << 64, 94, 192, 0, 0, 0, 0, 0 >>)
    /\ Len(last.fields) = 2
    /\ last.without.value = last.m

\* C33: value decode failures are returned as errors. Decoding any byte
\* string with the dynamic or a typed struct decoder returns a value or a
\* decode error (premature end, invalid type) and never aborts.
C33_DecodeNeverAborts ==
    last.op = "from_slice" => ~last.panic

\* C34: the index engine treats the extractor's result as a set. An insert
\* into a table whose index lists a key more than once, or lists the keys in
\* another order, succeeds (the sub-tables of the attached indexes existing)
\* and leaves in each index the rows that applying the extractor listing each
\* distinct key once ("a") to the same stored rows leaves.
C34_ExtractorAsSet ==
    [][ (last'.op = "insert" /\ created /\ \A i \in Range(indexes) : Maintained(i)) =>
          /\ last'.ok
          /\ \A i \in Range(indexes) :
                idx'[i] = IndexUpdate("a", idx[i], wm[i], last'.key, last'.value,
                                      seq + 1).data ]_vars

\* The index rows of a primary key, and those of the other primary keys.
RowsOfPk(data, pk) == { p \in data : p[2] = pk }
RowsOfOthers(data, pk) == { p \in data : p[2] # pk }

\* C35: an index upsert for the primary key pk touches only the rows of pk.
\* After a successful insert of (pk, value) the index rows of pk are exactly
\* the keys extractor(pk, value) yields, and every stored (ik, pk') row with
\* pk' # pk, also one whose ik pk has stopped producing, is unchanged.
C35_UpsertTouchesOwnRows ==
    [][ (last'.op = "insert" /\ last'.ok /\ Maintained("a")) =>
          /\ RowsOfPk(idx'["a"], last'.key) =
                { << ik, last'.key >> :
                     ik \in Range(Extractor("a", last'.key, last'.value).keys) }
          /\ RowsOfOthers(idx'["a"], last'.key) = RowsOfOthers(idx["a"], last'.key) ]_vars

\* The greater of the previous watermark (if any) and the version.
MaxWatermark(w, version) ==
    IF IsSome(w) /\ Unwrap(w) > version THEN w ELSE Some(version)

\* C36: applying a delete (pk, version) to an index (Index::table_update with
\* TableUpdate::Delete) removes all rows of pk and persists the watermark
\* max(previous watermark, version).
C36_IndexDelete ==
    [][ (last'.op = "table_update" /\ last'.u.kind = "Delete" /\ Maintained("a")) =>
          /\ last'.ok
          /\ RowsOfPk(idx'["a"], last'.u.key) = {}
          /\ RowsOfOthers(idx'["a"], last'.u.key) = RowsOfOthers(idx["a"], last'.u.key)
          /\ wm'["a"] = MaxWatermark(wm["a"], last'.u.version) ]_vars

\* C39: applying the same upsert (pk, value, version) to an index twice in a
\* row leaves the rows and the watermark the first application left, and a
\* create_table stopped in its catch-up and run again ends with the index
\* rows and watermark the unstopped create_table ends with.
C39_UpsertIdempotent ==
    [][ /\ (last'.op = "table_update" /\ last'.u.kind = "Upsert" /\ last'.ok) =>
              TableUpdateOne("a", tables', idx'["a"], wm'["a"], last'.u) =
                  [ ok |-> TRUE, data |-> idx'["a"], wm |-> wm'["a"] ]
        /\ last'.op = "create_table_stopped" =>
              LET again == CreateTableResult(indexes', tables', idx', wm', conf2', rows')
                  whole == CreateTableResult(indexes, tables, idx, wm, conf2, rows)
              IN /\ again.ok = whole.ok
                 /\ again.idx = whole.idx
                 /\ again.wm = whole.wm ]_vars

\* An upsert of a version has left rows of its pk beside rows of another pk.
C39_Witness ==
    /\ last.op = "table_update" /\ last.u.kind = "Upsert" /\ last.ok
    /\ RowsOfPk(idx["a"], last.u.key) # {}
    /\ RowsOfOthers(idx["a"], last.u.key) # {}
    /\ wm["a"] = Some(last.u.version)

\* C37: in every reachable state every key that has at least one physical row
\* has exactly one row with is_latest = 1, and that row has the greatest
\* rowid among the rows of the key.
C37_LatestIsGreatest ==
    \A k \in Keys :
        RowsOf(rows, k) # {} =>
            /\ Cardinality(LatestOf(rows, k)) = 1
            /\ \A j \in LatestOf(rows, k) :
                  \A h \in RowsOf(rows, k) : rows[h].rowid <= rows[j].rowid

\* C37 witness: a key has a superseded live row, a superseded tombstone and a
\* latest row.
C37_Witness ==
    \E k \in Keys :
        /\ \E j \in RowsOf(rows, k) : ~rows[j].is_latest /\ ~rows[j].is_deleted
        /\ \E j \in RowsOf(rows, k) : ~rows[j].is_latest /\ rows[j].is_deleted
        /\ LatestOf(rows, k) = { Len(rows) }

\* C40: delete(k) when the latest row of k is a tombstone returns 0 and
\* appends no row: the rows and the rowid sequence are as before the call.
C40_DeleteOfAbsentIsNoOp ==
    [][ (/\ last'.op = "delete" /\ created
         /\ \E j \in LatestOf(rows, last'.key) : rows[j].is_deleted) =>
          /\ last'.ok /\ last'.ret = 0
          /\ UNCHANGED << rows, seq >> ]_vars

\* An observer's replica m (key -> what get returns) after the items evs:
\* chained tells whether every from side was the replica's entry.
RECURSIVE Replayed(_, _, _)
Replayed(m, evs, chained) ==
    IF evs = << >> THEN [ m |-> m, chained |-> chained ]
    ELSE LET e == Head(evs)
         IN Replayed([ m EXCEPT ![e.key] = e.to ], Tail(evs), chained /\ e.from = m[e.key])

\* C38: the observer event stream is a faithful change log: over every call
\* of insert, insert_batch, delete, delete_with_version or update, the from
\* side of each delivered item is the to side of the item delivered before
\* for the same key, and a replica that agreed with get before the call and
\* applies the delivered items agrees with get after it.
C38_EventLog ==
    [][ last'.op \in DataOps =>
          LET r == Replayed([ k \in Keys |-> Get(rows, k) ], last'.events, TRUE)
          IN /\ r.chained
             /\ \A k \in Keys : r.m[k] = Get(rows', k) ]_vars

====
